---- MODULE Spec2Model ----
(***************************************************************************)
(* Paired-order execution of the hedge bot: the trade orchestrator         *)
(* (core/bot.py), the order manager (core/order_manager.py), the stream    *)
(* ingestion of the order monitor (order_monitor.py) and the two venues.   *)
(* The orchestrator thread and the ingestion thread interleave at every    *)
(* venue call and every store access.                                      *)
(***************************************************************************)
EXTENDS Integers, Sequences, FiniteSets, TLC

\* ---------------------------------------------------------------- bounds
NumChunks == 2          \* chunks of the one trade that is modelled
MaxOrders == 3          \* order ids the two venues hand out in a run
MaxCycles == 1          \* Phase-1 modification cycles before the loop is cut
MaxFails == 3           \* failed submissions inside one resolver invocation
MaxStream == 1          \* events in flight on one venue's stream
MinQty == 2             \* minOrderQty of the symbol, in precision steps
ChunkQty == 4           \* quantity of one chunk leg, in precision steps
MaxEvents == 2          \* stream events delivered to one venue's handler

\* ------------------------------------------------------ program constants
MAX_SPREAD == 20        \* MAX_SPREAD_PERCENT = 0.2, in hundredths of a percent
PollsPerCycle == 5      \* for i in range(5) of the Phase-1 loop
ConfirmPolls == 20      \* for i in range(20) of the Venue-A confirmation wait
ConfirmAfter == 5       \* if i >= 5: no rejection seen, order taken as active
TicksPerCycle == 4      \* for attempt in range(1, 5)
MarketWaitPolls == 30   \* for i in range(30) of the market-order wait
DefaultRetries == 5     \* max_retries default of _check_order_status_from_db
SafetyRetries == 3      \* max_retries=3 of the final safety check
NotFoundRetries == 10   \* max_retries=10 of the re-check after "not found"
ReplaceRetries == 3     \* max_retries = 3 of the replacement placement

Exchanges == {"Bybit", "CoinDCX"}
OrderIds == 1..MaxOrders
Chunks == 1..NumChunks
Spreads == {5, 20, 35}  \* quotes the oracle may return (0.05%, 0.20%, 0.35%)

NoOrder == [st |-> "none", ex |-> "none", typ |-> "none", seq |-> 0]

VARIABLES
    ord,          \* venue side: order id -> [st, ex, typ, seq]
    nextId,       \* next order id a venue hands out
    stream,       \* venue -> events in flight to the ingestion thread
    rows,         \* orders table: set of [seq, ex, oid, status, otype]
    lastEvent,    \* order_lifecycle_log: latest event_type per order id
    rejections,   \* OrderMonitor.recent_rejections: order id -> reason
    pc,           \* position of the orchestrator thread
    stack,        \* return labels of the calls in progress
    chunk,        \* i of execute_trade
    attempt,      \* attempt of the placement ladders
    poll,         \* i of the polling loops
    cycle,        \* modification cycles done in this Phase 1
    ids,          \* [A, B]: bybit_order_id and coindcx_order_id
    stat,         \* [A, B]: bybit_status and coindcx_status last read
    res,          \* resolver locals
    call,         \* arguments and result of the helper in progress
    raised,       \* exception that left the current chunk
    outcome,      \* chunk -> "none", "success" or the exception
    trade,        \* "running", "success", "failed", "interrupted"
    hist,         \* history variables the properties refer to
    fee,          \* the trade's fee_reconciliation row
    probe         \* call under examination in the function-level specifications

vars == <<ord, nextId, stream, rows, lastEvent, rejections, pc, stack, chunk,
          attempt, poll, cycle, ids, stat, res, call, raised, outcome, trade,
          hist, fee, probe>>

venueVars == <<ord, nextId, stream>>
storeVars == <<rows, lastEvent, rejections>>
orchVars == <<pc, stack, chunk, attempt, poll, cycle, ids, stat, res, call,
              raised, outcome, trade>>
auxVars == <<fee, probe>>

\* ------------------------------------------------------------ order store

RowOf(oid) == {r \in rows : r.oid = oid}

\* SELECT status FROM orders WHERE order_id = %s (fetchone)
RowStatus(oid) ==
    IF RowOf(oid) = {} THEN "NULL" ELSE (CHOOSE r \in RowOf(oid) : TRUE).status

\* The decision with its second case trusting the row after the retries.
StatusDecisionTrustRow(os, ev, a, n) ==
    IF os \in {"FILLED", "CANCELLED", "REJECTED"}
    THEN IF ev = os \/ ev = "FILLED" THEN os
         ELSE IF a < n THEN "RETRY" ELSE os
    ELSE IF os \in {"OPEN", "PLACED", "NEW"}
    THEN IF ev = "FILLED"
         THEN IF a < n THEN "RETRY" ELSE os
         ELSE os
    ELSE IF ev = "FILLED" THEN "FILLED"
         ELSE IF ev \in {"PLACED", "OPEN", "NEW"}
         THEN IF a < n THEN "RETRY" ELSE "RAISE"
         ELSE IF ev = "CANCELLED" THEN "CANCELLED"
         ELSE IF a < n THEN "RETRY" ELSE "None"

\* One read of _check_order_status_from_db: what attempt number `a` of `n`
\* does with the two values it read.  "RETRY" is the continue of the loop.
StatusDecision(os, ev, a, n) ==
    IF os \in {"FILLED", "CANCELLED", "REJECTED"}
    THEN IF ev = os \/ ev = "FILLED" THEN os
         ELSE IF a < n THEN "RETRY" ELSE os
    ELSE IF os \in {"OPEN", "PLACED", "NEW"}
    THEN IF ev = "FILLED"
         THEN IF a < n THEN "RETRY" ELSE "FILLED"
         ELSE os
    ELSE \* orders_status is None
         IF ev = "FILLED" THEN "FILLED"
         ELSE IF ev \in {"PLACED", "OPEN", "NEW"}
         THEN IF a < n THEN "RETRY" ELSE "RAISE"
         ELSE IF ev = "CANCELLED" THEN "CANCELLED"
         ELSE IF a < n THEN "RETRY" ELSE "None"

RECURSIVE StatusLoop(_, _, _, _)
StatusLoop(os, ev, a, n) ==
    LET d == StatusDecision(os, ev, a, n)
    IN  IF d = "RETRY" THEN StatusLoop(os, ev, a + 1, n) ELSE d

\* _check_order_status_from_db(order_id, max_retries): the status it returns,
\* "None", or "RAISE" when it raises.  The value a call returns is decided by
\* the read it returns from, so the call is evaluated on the store at that read.
CheckStatus(oid, n) == StatusLoop(RowStatus(oid), lastEvent[oid], 1, n)

\* UPDATE orders SET status = %s WHERE order_id = %s
SetRowStatus(oid, s) ==
    {IF r.oid = oid THEN [r EXCEPT !.status = s] ELSE r : r \in rows}

\* Database.upsert_order: one row per (chunk_group, chunk_sequence, exchange);
\* on conflict order_id, status and order_type are replaced.
Upsert(c, ex, oid, s, t) ==
    {r \in rows : ~(r.seq = c /\ r.ex = ex)}
        \cup {[seq |-> c, ex |-> ex, oid |-> oid, status |-> s, otype |-> t]}


\* ------------------------------------------------------------- the venues

Emit(q, ex, oid, ev) == [q EXCEPT ![ex] = Append(@, [oid |-> oid, ev |-> ev])]

CanEmit(ex) == Len(stream[ex]) < MaxStream

Live(oid) == ord[oid].st \in {"open", "partial"}

\* A venue accepts a submission and hands out the next order id.  Venue-A
\* reports an accepted limit order as New on its stream, or rejects it there
\* (post-only or another reason); Venue-B's initial/open events change no
\* status in the handler (order_monitor.py:1169) and are not queued.
Submitted(ex, typ, c, st, ev) ==
    /\ nextId <= MaxOrders
    /\ ord' = [ord EXCEPT ![nextId] = [st |-> st, ex |-> ex, typ |-> typ, seq |-> c]]
    /\ nextId' = nextId + 1
    /\ IF ev = "none" THEN stream' = stream
       ELSE CanEmit(ex) /\ stream' = Emit(stream, ex, nextId, ev)

\* The venue executes the whole remaining quantity of an order.
VenueFill ==
    /\ trade = "running"
    /\ \E oid \in OrderIds :
        /\ Live(oid)
        /\ CanEmit(ord[oid].ex)
        /\ ord' = [ord EXCEPT ![oid].st = "filled"]
        /\ stream' = Emit(stream, ord[oid].ex, oid, "Filled")
    /\ UNCHANGED <<nextId, storeVars, orchVars, hist>>
    /\ UNCHANGED auxVars

\* The venue executes part of a Venue-A limit order: an execution event is
\* streamed and the order stays open for the rest.
VenuePartial ==
    /\ trade = "running"
    /\ \E oid \in OrderIds :
        /\ ord[oid].st = "open" /\ ord[oid].ex = "Bybit" /\ ord[oid].typ = "limit"
        /\ CanEmit("Bybit")
        /\ ord' = [ord EXCEPT ![oid].st = "partial"]
        /\ stream' = Emit(stream, "Bybit", oid, "Execution")
    /\ UNCHANGED <<nextId, storeVars, orchVars, hist>>
    /\ UNCHANGED auxVars

\* The venue (or the account owner at the venue) cancels a resting limit order.
VenueCancel ==
    /\ trade = "running"
    /\ \E oid \in OrderIds :
        /\ Live(oid) /\ ord[oid].typ = "limit"
        /\ CanEmit(ord[oid].ex)
        /\ ord' = [ord EXCEPT ![oid].st = "cancelled"]
        /\ stream' = Emit(stream, ord[oid].ex, oid, "Cancelled")
    /\ UNCHANGED <<nextId, storeVars, orchVars, hist>>
    /\ UNCHANGED auxVars

\* --------------------------------------------------- the ingestion thread

\* The status the stream handlers write for an event; "none" when the
\* handler writes no status (on_order_update of either venue and
\* on_execution_update of Venue-A, which records FILLED for any execution).
HandlerStatus(ex, ev) ==
    IF ex = "Bybit"
    THEN CASE ev = "New" -> "OPEN"
           [] ev = "Filled" -> "FILLED"
           [] ev = "Execution" -> "FILLED"
           [] ev = "Cancelled" -> "CANCELLED"
           [] ev \in {"RejectedPostOnly", "RejectedOther"} -> "REJECTED"
           [] OTHER -> "none"
    ELSE CASE ev = "Filled" -> "FILLED"
           [] ev = "Cancelled" -> "CANCELLED"
           [] OTHER -> "none"

\* update_order_status / update_order_status_with_fees: UPDATE by order id and,
\* only when the row was found, one lifecycle-log entry of the same status.
Ingest ==
    \E ex \in Exchanges :
        /\ stream[ex] /= <<>>
        /\ LET e == Head(stream[ex])
               s == HandlerStatus(ex, e.ev)
               found == RowOf(e.oid) /= {}
           IN  /\ stream' = [stream EXCEPT ![ex] = Tail(@)]
               /\ rows' = IF s = "none" THEN rows ELSE SetRowStatus(e.oid, s)
               /\ lastEvent' = IF s /= "none" /\ found
                               THEN [lastEvent EXCEPT ![e.oid] = s]
                               ELSE lastEvent
               /\ rejections' =
                    IF e.ev = "RejectedPostOnly"
                    THEN [rejections EXCEPT ![e.oid] = "EC_PostOnlyWillTakeLiquidity"]
                    ELSE IF e.ev = "RejectedOther"
                    THEN [rejections EXCEPT ![e.oid] = "Other"]
                    ELSE rejections
               /\ hist' = IF found
                          THEN IF s = "CANCELLED"
                               THEN [hist EXCEPT !.cancelLogged = @ \cup {e.oid}]
                               ELSE hist
                          ELSE IF ord[e.oid].typ /= "market"
                               THEN IF e.ev \in {"New", "Filled"}
                                    THEN [hist EXCEPT !.early = @ \cup
                                             {[oid |-> e.oid, s |-> s]}]
                                    ELSE hist
                          ELSE [hist EXCEPT !.noRow = @ \cup {e.oid}]
        /\ UNCHANGED <<ord, nextId, orchVars>>
        /\ UNCHANGED auxVars


\* ------------------------------------------------- the orchestrator thread

\* ------------------------------------------------------ fee reconciliation

\* Quantities are counted in steps of the symbol's base precision.
FeeSteps == {0, 1}
TopUpReplies == {"ok", "rejected", "error"}

\* initialize_trade_reconciliation: INSERT (chunk_group_id, symbol,
\* total_chunks, completed_chunks = 0); the statement sets no status.
NewFeeRow(n) ==
    [total |-> n, completed |-> 0, shortfall |-> 0, status |-> "unset",
     topups |-> 0]

\* record_bybit_fill: one UPDATE adding the chunk's fee to the totals and 1 to
\* completed_chunks, whatever the row holds.
RecordBybitFill(f, amt) ==
    [f EXCEPT !.completed = @ + 1, !.shortfall = @ + amt]

\* _place_reconciliation_order: a market BUY at Venue-A; COMPLETED when the
\* venue accepts it, FAILED when it answers with an error, and nothing written
\* when the call raises (the except clause rolls back).
PlaceReconciliationOrder(f, reply) ==
    CASE reply = "ok" -> [f EXCEPT !.status = "COMPLETED", !.topups = @ + 1]
      [] reply = "rejected" -> [f EXCEPT !.status = "FAILED"]
      [] OTHER -> f

\* check_and_reconcile: returns while completed < total_chunks; otherwise a
\* top-up order when the rounded shortfall reaches the minimum order
\* quantity, else the row is marked SKIPPED_BELOW_MINIMUM.
CheckAndReconcile(f, reply) ==
    IF f.completed < f.total THEN f
    ELSE IF f.shortfall >= MinQty THEN PlaceReconciliationOrder(f, reply)
    ELSE [f EXCEPT !.status = "SKIPPED_BELOW_MINIMUM"]

NoProbe == [fn |-> "none"]

NoStat == [A |-> "none", B |-> "none"]
NoCall == [ex |-> "none", oid |-> 0, ok |-> FALSE]
NoRes == [active |-> FALSE, ex |-> "none", oid |-> 0, k |-> 0, mkt |-> 0]
NoHist == [noRow |-> {}, cancelSent |-> {}, aConfirmed |-> {}, bFailed |-> FALSE,
           rSubmits |-> 0, fbFilled |-> FALSE, mktAfterFilled |-> FALSE,
           cancelledSeen |-> FALSE, spreadSeen |-> FALSE,
           started |-> {1}, reconciled |-> 0,
           placed |-> {}, cancelLogged |-> {}, quoteFailed |-> FALSE,
           repriced |-> {}, pending |-> {}, early |-> {}]

\* The chunk loop of execute_trade is about to run chunk c, the chunks before
\* it having returned success; their orders are final and lie outside the
\* window of order ids.
StartOfChunk(c) ==
    /\ ord = [o \in OrderIds |-> NoOrder]
    /\ nextId = 1
    /\ stream = [ex \in Exchanges |-> <<>>]
    /\ rows = {}
    /\ lastEvent = [o \in OrderIds |-> "none"]
    /\ rejections = [o \in OrderIds |-> "none"]
    /\ pc = "P_quote"
    /\ stack = <<>>
    /\ chunk = c
    /\ attempt = 1
    /\ poll = 0
    /\ cycle = 0
    /\ ids = [A |-> 0, B |-> 0]
    /\ stat = NoStat
    /\ res = NoRes
    /\ call = NoCall
    /\ raised = "none"
    /\ outcome = [k \in Chunks |-> IF k < c THEN "success" ELSE "none"]
    /\ trade = "running"
    /\ hist = [NoHist EXCEPT !.started = 1..c]

\* execute_trade is entered: no order, no row; the reconciliation row is new
\* (TradeInit)
TradeStart == StartOfChunk(1)

TradeInit == TradeStart /\ fee = NewFeeRow(NumChunks)

Init == TradeInit /\ probe = NoProbe

\* An except clause of execute_trade that logs the exception and lets the
\* chunk loop go on.
RaiseAndGoOn(e) ==
    /\ raised' = e
    /\ outcome' = [outcome EXCEPT ![chunk] = e]
    /\ trade' = trade
    /\ pc' = "CH_done"
    /\ stack' = <<>>

\* An exception leaves execute_chunk_with_active_management: both except
\* clauses of execute_trade return False, no later chunk is executed.
Raise(e) ==
    /\ raised' = e
    /\ outcome' = [outcome EXCEPT ![chunk] = e]
    /\ trade' = "failed"
    /\ pc' = "done"
    /\ stack' = <<>>

\* return of a helper to the label its caller left on the stack
Return == pc' = Head(stack) /\ stack' = Tail(stack)

Call(label, back) == pc' = label /\ stack' = <<back>> \o stack

\* for attempt in range(1, 5) inside while True
NextAttempt(a) == IF a = TicksPerCycle THEN 1 ELSE a + 1

\* History: limit-order submissions made inside one resolver invocation.
\* Failing submissions there are cut at MaxFails; before a leg has filled the
\* ladder cycles without a count.
CountSubmit(h) == IF res.active THEN [h EXCEPT !.rSubmits = @ + 1] ELSE h
MayFail == res.active => hist.rSubmits < MaxFails

SpreadTooWide(s) == s > MAX_SPREAD

\* A placement that submits the Venue-A order before it looks at the spread.
PlaceQuoteAfterSubmit ==
    /\ pc = "P_quote"
    /\ \E s \in Spreads :
         /\ Submitted("Bybit", "limit", chunk, "open", "New")
         /\ IF SpreadTooWide(s)
            THEN Raise("Spread") /\ UNCHANGED <<attempt>>
            ELSE /\ Call("PB_submit", "P_afterA")
                 /\ attempt' = 1
                 /\ UNCHANGED <<raised, outcome, trade>>
    /\ UNCHANGED <<storeVars, chunk, poll, cycle, ids, stat, res, call, hist>>
    /\ UNCHANGED auxVars

\* _place_both_orders, quote and spread check
PlaceQuote ==
    /\ pc = "P_quote"
    /\ \/ /\ Raise("Other")          \* get_validated_prices raises
          /\ UNCHANGED <<attempt>>
       \/ \E s \in Spreads :
            IF SpreadTooWide(s)
            THEN Raise("Spread") /\ UNCHANGED <<attempt>>
            ELSE /\ Call("PB_submit", "P_afterA")
                 /\ attempt' = 1
                 /\ UNCHANGED <<raised, outcome, trade>>
    /\ UNCHANGED <<venueVars, storeVars, chunk, poll, cycle, ids, stat, res, call, hist>>
    /\ UNCHANGED auxVars

\* _place_bybit_order: bybit.place_spot_order
BybitSubmit ==
    /\ pc = "PB_submit"
    /\ \/ /\ MayFail                 \* no success in the response, or an exception
          /\ attempt' = NextAttempt(attempt)
          /\ hist' = CountSubmit(hist)
          /\ UNCHANGED <<venueVars, pc, poll, call>>
       \/ \E o \in {<<"open", "New">>, <<"rejected", "RejectedPostOnly">>,
                    <<"rejected", "RejectedOther">>} :
            /\ Submitted("Bybit", "limit", chunk, o[1], o[2])
            /\ call' = [call EXCEPT !.ex = "Bybit", !.oid = nextId]
            /\ poll' = 0
            /\ pc' = "PB_poll"
            /\ hist' = CountSubmit(hist)
            /\ attempt' = attempt
    /\ UNCHANGED <<storeVars, stack, chunk, cycle, ids, stat, res, raised, outcome, trade>>
    /\ UNCHANGED auxVars

\* History: the chunk's Venue-A placement returned an order to
\* _place_both_orders, `seen` telling that the monitor held no rejection for
\* it or that the venue listed it as open.
Confirmed(h, seen) ==
    IF Head(stack) = "P_afterA" /\ seen
    THEN [h EXCEPT !.aConfirmed = @ \cup {chunk}] ELSE h

\* A confirmation wait that takes a post-only rejection for an acceptance.
ConfirmDecisionLax(reason, i) ==
    IF reason = "EC_PostOnlyWillTakeLiquidity" THEN "active"
    ELSE IF reason = "none" /\ i >= ConfirmAfter THEN "active"
    ELSE "wait"

\* What one 100 ms poll of the confirmation wait decides on the rejection
\* reason the monitor holds for the order.
ConfirmDecision(reason, i) ==
    IF reason = "EC_PostOnlyWillTakeLiquidity" THEN "rejected"
    ELSE IF reason = "none" /\ i >= ConfirmAfter THEN "active"
    ELSE "wait"

\* _place_bybit_order: the confirmation wait on the monitor's rejections
BybitPoll ==
    /\ pc = "PB_poll"
    /\ LET d == ConfirmDecision(rejections[call.oid], poll)
       IN  CASE d = "rejected" ->
                  /\ pc' = "PB_submit"
                  /\ attempt' = NextAttempt(attempt)
                  /\ UNCHANGED <<stack, poll, hist>>
             [] d = "active" ->
                  /\ Return
                  /\ hist' = Confirmed(hist, rejections[call.oid] = "none")
                  /\ attempt' = 1
                  /\ poll' = 0
             [] OTHER ->
                  /\ IF poll + 1 < ConfirmPolls
                     THEN pc' = pc /\ poll' = poll + 1
                     ELSE pc' = "PB_api" /\ poll' = poll
                  /\ UNCHANGED <<stack, attempt, hist>>
    /\ UNCHANGED <<venueVars, storeVars, chunk, cycle, ids, stat, res, call,
                   raised, outcome, trade>>
    /\ UNCHANGED auxVars

\* A lookup whose answer is taken for a confirmation whatever it lists.
BybitApiCheckLax ==
    /\ pc = "PB_api"
    /\ Return
    /\ hist' = Confirmed(hist, TRUE)
    /\ attempt' = 1
    /\ poll' = 0
    /\ UNCHANGED <<venueVars, storeVars, chunk, cycle, ids, stat, res, call,
                   raised, outcome, trade>>
    /\ UNCHANGED auxVars

\* _place_bybit_order: the open-orders lookup after a silent wait
BybitApiCheck ==
    /\ pc = "PB_api"
    /\ \/ /\ Live(call.oid)          \* retCode 0 and the order is listed
          /\ Return
          /\ hist' = Confirmed(hist, TRUE)
          /\ attempt' = 1
       \/ /\ pc' = "PB_submit"      \* not listed, retCode /= 0, or an exception
          /\ attempt' = NextAttempt(attempt)
          /\ UNCHANGED <<stack, hist>>
    /\ poll' = 0
    /\ UNCHANGED <<venueVars, storeVars, chunk, cycle, ids, stat, res, call,
                   raised, outcome, trade>>
    /\ UNCHANGED auxVars

\* _place_both_orders: bybit_order_id = bybit_order['order_id'], then the
\* call of _place_coindcx_order
PlaceAfterA ==
    /\ pc = "P_afterA"
    /\ ids' = [ids EXCEPT !.A = call.oid]
    /\ attempt' = 1
    /\ Call("PC_submit", "P_afterB")
    /\ call' = NoCall
    /\ UNCHANGED <<venueVars, storeVars, chunk, poll, cycle, stat, res,
                   raised, outcome, trade, hist>>
    /\ UNCHANGED auxVars

\* _place_coindcx_order: coindcx.place_order; every failure is retried
CoinDCXSubmit ==
    /\ pc = "PC_submit"
    /\ \/ /\ MayFail                 \* no id in the response, or an exception
          /\ attempt' = NextAttempt(attempt)
          /\ hist' = IF Head(stack) = "P_afterB"
                     THEN [hist EXCEPT !.bFailed = TRUE]
                     ELSE CountSubmit(hist)
          /\ UNCHANGED <<venueVars, pc, stack, call>>
       \/ /\ Submitted("CoinDCX", "limit", chunk, "open", "none")
          /\ call' = [call EXCEPT !.ex = "CoinDCX", !.oid = nextId]
          /\ Return
          /\ attempt' = 1
          /\ hist' = CountSubmit(hist)
    /\ UNCHANGED <<storeVars, chunk, poll, cycle, ids, stat, res, raised, outcome, trade>>
    /\ UNCHANGED auxVars

\* _place_both_orders: coindcx_order_id = coindcx_order['id']
PlaceAfterB ==
    /\ pc = "P_afterB"
    /\ ids' = [ids EXCEPT !.B = call.oid]
    /\ pc' = "P_upsertA"
    /\ call' = NoCall
    /\ UNCHANGED <<venueVars, storeVars, stack, chunk, attempt, poll, cycle, stat,
                   res, raised, outcome, trade, hist>>
    /\ UNCHANGED auxVars

\* _place_both_orders: the two upserts and the two PLACED lifecycle events,
\* each committed on its own
PlaceRecord ==
    /\ pc \in {"P_upsertA", "P_upsertB", "P_logA", "P_logB"}
    /\ CASE pc = "P_upsertA" ->
              /\ rows' = Upsert(chunk, "Bybit", ids.A, "PLACED", "limit")
              /\ pc' = "P_upsertB"
              /\ UNCHANGED <<lastEvent, poll, cycle, hist>>
         [] pc = "P_upsertB" ->
              /\ rows' = Upsert(chunk, "CoinDCX", ids.B, "PLACED", "limit")
              /\ pc' = "P_logA"
              /\ UNCHANGED <<lastEvent, poll, cycle, hist>>
         [] pc = "P_logA" ->
              /\ lastEvent' = [lastEvent EXCEPT ![ids.A] = "PLACED"]
              /\ hist' = [hist EXCEPT !.placed = @ \cup {ids.A}]
              /\ pc' = "P_logB"
              /\ UNCHANGED <<rows, poll, cycle>>
         [] pc = "P_logB" ->
              /\ lastEvent' = [lastEvent EXCEPT ![ids.B] = "PLACED"]
              /\ hist' = [hist EXCEPT !.placed = @ \cup {ids.B}]
              /\ pc' = "AM_pollA"
              /\ poll' = 0
              /\ cycle' = 0
              /\ UNCHANGED rows
    /\ UNCHANGED <<venueVars, rejections, stack, chunk, attempt, ids, stat, res,
                   call, raised, outcome, trade>>
    /\ UNCHANGED auxVars

\* ------------------------------------------------ Phase 1: both legs open

\* Labels a helper called from the modification block returns to.
LoopLabels == {"AM_orderErr", "AM_spreadB", "AM_spreadRaise", "AM_newA", "AM_newB"}

\* except Exception of the modification block: the error is logged and the
\* while True loop goes on with its next five reads.
ContinueLoop ==
    /\ pc' = "AM_pollA"
    /\ stack' = <<>>
    /\ poll' = 0
    /\ cycle' = cycle + 1

\* A loop that also takes a CANCELLED Venue-B leg for the filled side.
FilledExchangeLax(a, b) ==
    IF a = "FILLED" /\ b = "FILLED" THEN "BOTH"
    ELSE IF a = "FILLED" THEN "Bybit"
    ELSE IF b \in {"FILLED", "CANCELLED"} THEN "CoinDCX"
    ELSE "none"

\* filled_exchange of _active_management_loop for the two statuses it read:
\* "BOTH", the leg that filled, or "none" when the loop goes on.
FilledExchange(a, b) ==
    IF a = "FILLED" /\ b = "FILLED" THEN "BOTH"
    ELSE IF a = "FILLED" THEN "Bybit"
    ELSE IF b = "FILLED" THEN "CoinDCX"
    ELSE "none"

\* execute_chunk_with_active_management after Phase 1 returned: the chunk is
\* complete on BOTH, otherwise _resolve_naked_position is entered for the
\* other leg with its current order id.
LeavePhase1(f) ==
    IF f = "BOTH"
    THEN /\ pc' = "CH_done"
         /\ res' = res
         /\ hist' = hist
    ELSE /\ pc' = "R_check"
         /\ res' = [active |-> TRUE,
                    ex |-> IF f = "Bybit" THEN "CoinDCX" ELSE "Bybit",
                    oid |-> IF f = "Bybit" THEN ids.B ELSE ids.A,
                    k |-> 1, mkt |-> 0]
         /\ hist' = [hist EXCEPT !.rSubmits = 0]

\* _active_management_loop, for i in range(5): the two status reads of one
\* second and the returns on FILLED
AMPoll ==
    /\ pc \in {"AM_pollA", "AM_pollB"}
    /\ IF pc = "AM_pollA"
       THEN LET a == CheckStatus(ids.A, DefaultRetries)
            IN  IF a = "RAISE"
                THEN Raise("Other") /\ UNCHANGED <<stat, poll, res, hist>>
                ELSE /\ stat' = [A |-> a, B |-> "none"]
                     /\ pc' = "AM_pollB"
                     /\ UNCHANGED <<stack, poll, res, raised, outcome, trade, hist>>
       ELSE LET b == CheckStatus(ids.B, DefaultRetries)
                f == FilledExchange(stat.A, b)
            IN  IF b = "RAISE"
                THEN Raise("Other") /\ UNCHANGED <<stat, poll, res, hist>>
                ELSE /\ stat' = IF f /= "none" THEN NoStat ELSE [stat EXCEPT !.B = b]
                     /\ IF f /= "none"
                        THEN LeavePhase1(f) /\ poll' = 0
                        ELSE /\ pc' = IF poll + 1 < PollsPerCycle
                                      THEN "AM_pollA" ELSE "AM_modA"
                             /\ poll' = poll + 1
                             /\ UNCHANGED <<res, hist>>
                     /\ UNCHANGED <<stack, raised, outcome, trade>>
    /\ UNCHANGED <<venueVars, storeVars, chunk, attempt, cycle, ids, call>>
    /\ UNCHANGED auxVars

\* _active_management_loop, modification block: the pre-modification reads,
\* the returns on FILLED and the CANCELLED branches
AMModCheck ==
    /\ pc \in {"AM_modA", "AM_modB"}
    /\ cycle < MaxCycles
    /\ IF pc = "AM_modA"
       THEN LET a == CheckStatus(ids.A, DefaultRetries)
            IN  /\ IF a = "RAISE"
                   THEN ContinueLoop /\ stat' = stat
                   ELSE /\ stat' = [A |-> a, B |-> "none"]
                        /\ pc' = "AM_modB"
                        /\ UNCHANGED <<stack, poll, cycle>>
                /\ UNCHANGED <<res, call, hist>>
       ELSE LET b == CheckStatus(ids.B, DefaultRetries)
                a == stat.A
                f == FilledExchange(a, b)
            IN  IF b = "RAISE"
                THEN ContinueLoop /\ UNCHANGED <<stat, res, call, hist>>
                ELSE /\ stat' = IF f /= "none" THEN NoStat ELSE [stat EXCEPT !.B = b]
                     /\ IF f /= "none"
                        THEN LeavePhase1(f) /\ poll' = 0 /\ UNCHANGED <<stack, cycle, call>>
                        ELSE IF a = "CANCELLED"
                        THEN /\ IF b = "OPEN"
                                THEN /\ Call("CX_check", "AM_orderErr")
                                     /\ call' = [ex |-> "CoinDCX", oid |-> ids.B, ok |-> FALSE]
                                ELSE pc' = "AM_orderErr" /\ UNCHANGED <<stack, call>>
                             /\ hist' = [hist EXCEPT !.cancelledSeen = @ \/ b = "OPEN"]
                             /\ UNCHANGED <<poll, cycle, res>>
                        ELSE IF b = "CANCELLED"
                        THEN /\ IF a = "OPEN"
                                THEN /\ Call("CX_check", "AM_orderErr")
                                     /\ call' = [ex |-> "Bybit", oid |-> ids.A, ok |-> FALSE]
                                ELSE pc' = "AM_orderErr" /\ UNCHANGED <<stack, call>>
                             /\ hist' = [hist EXCEPT !.cancelledSeen = @ \/ a = "OPEN"]
                             /\ UNCHANGED <<poll, cycle, res>>
                        ELSE /\ pc' = "AM_price"
                             /\ UNCHANGED <<stack, poll, cycle, res, call, hist>>
    /\ UNCHANGED <<venueVars, storeVars, chunk, attempt, ids, raised, outcome, trade>>
    /\ UNCHANGED auxVars

\* _active_management_loop: raise OrderException(... 'order was cancelled')
\* inside the try block, caught by its except Exception
AMOrderError ==
    /\ pc = "AM_orderErr"
    /\ ContinueLoop
    /\ call' = NoCall
    /\ UNCHANGED <<venueVars, storeVars, chunk, attempt, ids, stat, res,
                   raised, outcome, trade, hist>>
    /\ UNCHANGED auxVars

\* A modification block in which a failed quote ends the chunk.
AMPriceFatal ==
    /\ pc = "AM_price"
    /\ \/ /\ Raise("Other")
          /\ hist' = [hist EXCEPT !.quoteFailed = TRUE]
          /\ UNCHANGED <<poll, cycle, call>>
       \/ \E s \in Spreads :
            IF SpreadTooWide(s)
            THEN /\ Call("CX_check", "AM_spreadB")
                 /\ call' = [ex |-> "Bybit", oid |-> ids.A, ok |-> FALSE]
                 /\ hist' = [hist EXCEPT !.spreadSeen = TRUE]
                 /\ UNCHANGED <<poll, cycle, raised, outcome, trade>>
            ELSE /\ pc' = "AM_fixA"
                 /\ UNCHANGED <<stack, poll, cycle, call, hist, raised, outcome, trade>>
    /\ UNCHANGED <<venueVars, storeVars, chunk, attempt, ids, stat, res>>
    /\ UNCHANGED auxVars

\* _active_management_loop: get_validated_prices and the spread check of the
\* modification block
AMPrice ==
    /\ pc = "AM_price"
    /\ \/ /\ ContinueLoop            \* get_validated_prices raises
          /\ hist' = [hist EXCEPT !.quoteFailed = TRUE]
          /\ UNCHANGED call
       \/ \E s \in Spreads :
            IF SpreadTooWide(s)
            THEN /\ Call("CX_check", "AM_spreadB")
                 /\ call' = [ex |-> "Bybit", oid |-> ids.A, ok |-> FALSE]
                 /\ hist' = [hist EXCEPT !.spreadSeen = TRUE]
                 /\ UNCHANGED <<poll, cycle>>
            ELSE /\ pc' = "AM_fixA"
                 /\ UNCHANGED <<stack, poll, cycle, call, hist>>
    /\ UNCHANGED <<venueVars, storeVars, chunk, attempt, ids, stat, res, raised,
                   outcome, trade>>
    /\ UNCHANGED auxVars

\* _active_management_loop, spread branch: the second cancel and
\* raise SpreadException
AMSpread ==
    /\ pc \in {"AM_spreadB", "AM_spreadRaise"}
    /\ IF pc = "AM_spreadB"
       THEN /\ Call("CX_check", "AM_spreadRaise")
            /\ call' = [ex |-> "CoinDCX", oid |-> ids.B, ok |-> FALSE]
            /\ UNCHANGED <<raised, outcome, trade>>
       ELSE Raise("Spread") /\ call' = call
    /\ UNCHANGED <<venueVars, storeVars, chunk, attempt, poll, cycle, ids, stat,
                   res, hist>>
    /\ UNCHANGED auxVars

\* History: _modify_bybit_order / _modify_coindcx_order is called for the
\* order of a leg exactly when the status read for the leg was OPEN.
Amended(h, status, oid) ==
    IF status = "OPEN" THEN [h EXCEPT !.repriced = @ \cup {oid}] ELSE h

\* _active_management_loop: a REJECTED leg is placed anew (its row gives
\* the quantity), an OPEN leg is amended; then the loop goes on.  When the
\* amend of an OPEN Venue-B leg returns None the loop returns 'CoinDCX'
\* (the venue side of that amend is AmendSpec's).
AMFix ==
    /\ pc \in {"AM_fixA", "AM_newA", "AM_fixB", "AM_newB"}
    /\ CASE pc = "AM_fixA" ->
              /\ IF stat.A = "REJECTED" /\ RowOf(ids.A) /= {}
                 THEN Call("PB_submit", "AM_newA") /\ attempt' = 1
                 ELSE pc' = "AM_fixB" /\ UNCHANGED <<stack, attempt>>
              /\ hist' = Amended(hist, stat.A, ids.A)
              /\ UNCHANGED <<poll, cycle, ids, call, res>>
         [] pc = "AM_newA" ->
              /\ ids' = [ids EXCEPT !.A = call.oid]
              /\ pc' = "AM_fixB"
              /\ call' = NoCall
              /\ UNCHANGED <<stack, attempt, poll, cycle, res, hist>>
         [] pc = "AM_fixB" ->
              /\ IF stat.B = "REJECTED" /\ RowOf(ids.B) /= {}
                 THEN /\ Call("PC_submit", "AM_newB") /\ attempt' = 1
                      /\ UNCHANGED <<poll, cycle, res, hist>>
                 ELSE IF stat.B = "OPEN"
                 THEN /\ \/ /\ ContinueLoop
                            /\ hist' = Amended(hist, stat.B, ids.B)
                            /\ res' = res
                         \/ LeavePhase1("CoinDCX") /\ UNCHANGED <<stack, poll, cycle>>
                      /\ attempt' = attempt
                 ELSE ContinueLoop /\ UNCHANGED <<attempt, res, hist>>
              /\ UNCHANGED <<ids, call>>
         [] pc = "AM_newB" ->
              /\ ids' = [ids EXCEPT !.B = call.oid]
              /\ ContinueLoop
              /\ call' = NoCall
              /\ UNCHANGED <<attempt, res, hist>>
    /\ UNCHANGED <<venueVars, storeVars, chunk, stat, raised, outcome, trade>>
    /\ UNCHANGED auxVars

\* ------------------------------------------------------------ cancelling

\* An exception leaves a helper: inside the modification block it is caught
\* and the loop continues, inside the market fallback of the resolver it is
\* turned into NakedPositionException.
Throw ==
    IF Head(stack) \in LoopLabels
    THEN ContinueLoop /\ UNCHANGED <<raised, outcome, trade>>
    ELSE Raise("NakedPosition") /\ UNCHANGED <<poll, cycle>>

\* The order is recorded FILLED: by its row or by its latest lifecycle event.
RecordedFilled(oid) == RowStatus(oid) = "FILLED" \/ lastEvent[oid] = "FILLED"

\* History: the limit order of the unfilled leg was recorded FILLED when the
\* market fallback checked or cancelled it.
NoteFilled(h) ==
    IF res.active /\ RecordedFilled(res.oid)
    THEN [h EXCEPT !.fbFilled = TRUE] ELSE h

Cancellable(s) == s \in {"OPEN", "PLACED", "NEW"}

\* _cancel_bybit_order / _cancel_coindcx_order: the status pre-check
CancelCheck ==
    /\ pc = "CX_check"
    /\ LET s == CheckStatus(call.oid, DefaultRetries)
       IN  IF s = "RAISE" THEN Throw /\ call' = call
           ELSE IF Cancellable(s)
           THEN /\ pc' = "CX_rpc"
                /\ UNCHANGED <<stack, call, poll, cycle, raised, outcome, trade>>
           ELSE /\ Return
                /\ call' = [call EXCEPT !.ok = FALSE]
                /\ UNCHANGED <<poll, cycle, raised, outcome, trade>>
    /\ hist' = NoteFilled(hist)
    /\ UNCHANGED <<venueVars, storeVars, chunk, attempt, ids, stat, res>>
    /\ UNCHANGED auxVars

\* cancel_spot_order / cancel_order at the venue: a resting order is cancelled
\* and the cancellation streamed; an order that is gone is "not found"; any
\* other failure leaves the order as it is
CancelRequest ==
    /\ pc = "CX_rpc"
    /\ \/ /\ Live(call.oid)
          /\ CanEmit(call.ex)
          /\ ord' = [ord EXCEPT ![call.oid].st = "cancelled"]
          /\ stream' = Emit(stream, call.ex, call.oid, "Cancelled")
          /\ hist' = NoteFilled([hist EXCEPT !.cancelSent = @ \cup {call.oid}])
          /\ pc' = "CX_update"
          /\ UNCHANGED <<stack, poll, cycle, raised, outcome, trade>>
       \/ /\ ~Live(call.oid)
          /\ hist' = [hist EXCEPT !.cancelSent = @ \cup {call.oid}]
          /\ pc' = "CX_notfound"
          /\ UNCHANGED <<ord, stream, stack, poll, cycle, raised, outcome, trade>>
       \/ /\ Throw
          /\ UNCHANGED <<ord, stream, hist>>
    /\ UNCHANGED <<nextId, storeVars, chunk, attempt, ids, stat, res, call>>
    /\ UNCHANGED auxVars

\* the helpers after the venue answered: UPDATE orders SET status =
\* 'CANCELLED' and return True, or the re-check after "not found"
CancelFinish ==
    /\ pc \in {"CX_update", "CX_notfound"}
    /\ IF pc = "CX_update"
       THEN /\ rows' = SetRowStatus(call.oid, "CANCELLED")
            /\ call' = [call EXCEPT !.ok = TRUE]
            /\ Return
            /\ UNCHANGED <<poll, cycle, raised, outcome, trade>>
       ELSE LET s == CheckStatus(call.oid, IF call.ex = "Bybit" THEN NotFoundRetries
                                           ELSE DefaultRetries)
            IN  /\ rows' = rows
                /\ IF s /= "RAISE" /\ (call.ex = "Bybit" \/ s = "FILLED")
                   THEN /\ Return
                        /\ call' = [call EXCEPT !.ok = FALSE]
                        /\ UNCHANGED <<poll, cycle, raised, outcome, trade>>
                   ELSE Throw /\ call' = call
    /\ UNCHANGED <<venueVars, lastEvent, rejections, chunk, attempt, ids, stat, res, hist>>
    /\ UNCHANGED auxVars

\* ------------------------------------------------ Phase 2: naked position

\* _resolve_naked_position: the status read of attempt 1, of attempt 2 and
\* of the final check (res.k = 1, 2, 3) and what follows from it
ResolveCheck ==
    /\ pc = "R_check"
    /\ LET s == CheckStatus(res.oid, DefaultRetries)
       IN  CASE s = "RAISE" ->
                  Raise("Other") /\ UNCHANGED <<attempt, res, call, hist>>
             [] s = "FILLED" ->
                  /\ pc' = "CH_done"
                  /\ UNCHANGED <<stack, attempt, res, call, hist, raised, outcome, trade>>
             [] s /= "RAISE" /\ s /= "FILLED" /\ res.k = 3 ->
                  /\ Call("CX_check", "R_cancelled")
                  /\ call' = [ex |-> res.ex, oid |-> res.oid, ok |-> FALSE]
                  /\ hist' = [hist EXCEPT !.fbFilled = FALSE]
                  /\ UNCHANGED <<attempt, res, raised, outcome, trade>>
             [] s \in {"REJECTED", "CANCELLED"} /\ res.k < 3 ->
                  \* _place_new_limit_order_for_naked_position
                  /\ \/ /\ pc' = "R_check"      \* get_validated_prices raises
                        /\ res' = [res EXCEPT !.k = @ + 1]
                        /\ UNCHANGED <<stack, attempt>>
                     \/ /\ Call(IF res.ex = "Bybit" THEN "PB_submit" ELSE "PC_submit",
                                "R_newOrder")
                        /\ attempt' = 1
                        /\ res' = res
                  /\ UNCHANGED <<call, hist, raised, outcome, trade>>
             [] s = "OPEN" /\ res.k < 3 ->
                  /\ pc' = "R_modify"
                  /\ UNCHANGED <<stack, attempt, res, call, hist, raised, outcome, trade>>
             [] OTHER ->
                  /\ pc' = "R_check"
                  /\ res' = [res EXCEPT !.k = @ + 1]
                  /\ UNCHANGED <<stack, attempt, call, hist, raised, outcome, trade>>
    /\ UNCHANGED <<venueVars, storeVars, chunk, poll, cycle, ids, stat>>
    /\ UNCHANGED auxVars

\* _place_new_limit_order_for_naked_position after the placer returned: the
\* new id is taken when the response carries 'success'.  Venue-A's response
\* does; whether Venue-B's does is not decided by the order manager.
ResolveNewOrder ==
    /\ pc = "R_newOrder"
    /\ \E taken \in (IF res.ex = "Bybit" THEN {TRUE} ELSE BOOLEAN) :
         res' = [res EXCEPT !.k = @ + 1,
                            !.oid = IF taken THEN call.oid ELSE @]
    /\ pc' = "R_check"
    /\ call' = NoCall
    /\ UNCHANGED <<venueVars, storeVars, stack, chunk, attempt, poll, cycle, ids,
                   stat, raised, outcome, trade, hist>>
    /\ UNCHANGED auxVars

\* _modify_unfilled_order_to_latest_price inside try/except: the MODIFIED
\* lifecycle event, then the amend at the venue under the same order id
ResolveModify ==
    /\ pc = "R_modify"
    /\ \/ UNCHANGED <<lastEvent, hist>>     \* get_validated_prices raises
       \/ /\ lastEvent' = [lastEvent EXCEPT ![res.oid] = "MODIFIED"]
          /\ hist' = hist
    /\ res' = [res EXCEPT !.k = @ + 1]
    /\ pc' = "R_check"
    /\ UNCHANGED <<venueVars, rows, rejections, stack, chunk, attempt, poll, cycle,
                   ids, stat, call, raised, outcome, trade>>
    /\ UNCHANGED auxVars

\* market fallback after the cancel helper returned, and the final safety
\* check with max_retries=3
ResolveFallback ==
    /\ pc \in {"R_cancelled", "R_safety"}
    /\ IF pc = "R_cancelled"
       THEN /\ pc' = IF call.ok THEN "R_safety" ELSE "CH_done"
            /\ call' = NoCall
            /\ UNCHANGED <<stack, raised, outcome, trade>>
            /\ hist' = hist
       ELSE LET s == CheckStatus(res.oid, SafetyRetries)
            IN  /\ hist' = NoteFilled(hist)
                /\ call' = call
                /\ IF s = "RAISE" THEN Raise("NakedPosition")
                   ELSE /\ pc' = IF s = "FILLED" THEN "CH_done" ELSE "M_submit"
                        /\ UNCHANGED <<stack, raised, outcome, trade>>
    /\ UNCHANGED <<venueVars, storeVars, chunk, attempt, poll, cycle, ids, stat, res>>
    /\ UNCHANGED auxVars

\* _place_market_order: the submission at the venue
MarketSubmit ==
    /\ pc = "M_submit"
    /\ \/ /\ Raise("NakedPosition")         \* the venue call fails
          /\ UNCHANGED <<venueVars, res, hist>>
       \/ /\ Submitted(res.ex, "market", chunk, "open",
                       IF res.ex = "Bybit" THEN "New" ELSE "none")
          /\ res' = [res EXCEPT !.mkt = nextId]
          /\ hist' = [hist EXCEPT !.mktAfterFilled = hist.fbFilled]
          /\ pc' = "M_upsert"
          /\ UNCHANGED <<stack, raised, outcome, trade>>
    /\ UNCHANGED <<storeVars, chunk, attempt, poll, cycle, ids, stat, call>>
    /\ UNCHANGED auxVars

\* _place_market_order: upsert_order of the market order with its commit,
\* then the MARKET_FALLBACK lifecycle event
MarketRecord ==
    /\ pc \in {"M_upsert", "M_log"}
    /\ IF pc = "M_upsert"
       THEN \/ /\ rows' = Upsert(chunk, res.ex, res.mkt, "PLACED", "market")
               /\ pc' = "M_log"
               /\ UNCHANGED <<lastEvent, stack, poll, raised, outcome, trade>>
            \/ /\ Raise("NakedPosition")    \* the store fails
               /\ UNCHANGED <<rows, lastEvent, poll>>
       ELSE /\ lastEvent' = [lastEvent EXCEPT ![res.mkt] = "MARKET_FALLBACK"]
            /\ pc' = "R_wait"
            /\ poll' = 0
            /\ UNCHANGED <<rows, stack, raised, outcome, trade>>
    /\ UNCHANGED <<venueVars, rejections, chunk, attempt, cycle, ids, stat, res,
                   call, hist>>
    /\ UNCHANGED auxVars

\* _resolve_naked_position: for i in range(30), one status read per second
MarketWait ==
    /\ pc = "R_wait"
    /\ LET s == CheckStatus(res.mkt, DefaultRetries)
       IN  IF poll < MarketWaitPolls /\ s = "FILLED"
           THEN /\ pc' = "CH_done"
                /\ UNCHANGED <<stack, poll, raised, outcome, trade>>
           ELSE IF poll < MarketWaitPolls /\ s /= "RAISE"
           THEN /\ poll' = poll + 1
                /\ UNCHANGED <<pc, stack, raised, outcome, trade>>
           ELSE Raise("NakedPosition") /\ poll' = poll
    /\ UNCHANGED <<venueVars, storeVars, chunk, attempt, cycle, ids, stat, res,
                   call, hist>>
    /\ UNCHANGED auxVars

\* ------------------------------------------------------- execute_trade

\* execute_chunk_with_active_management returns success; execute_trade goes
\* on with the next chunk or, after the last one, runs check_and_reconcile
\* once and returns True.  No reconciler call is made inside the chunk loop.
ChunkDone ==
    /\ pc = "CH_done"
    /\ outcome' = [outcome EXCEPT ![chunk] = "success"]
    /\ IF chunk < NumChunks
       THEN /\ chunk' = chunk + 1
            /\ pc' = "P_quote"
            /\ trade' = trade
            /\ hist' = [hist EXCEPT !.started = @ \cup {chunk + 1},
                                    !.bFailed = FALSE, !.rSubmits = 0,
                                    !.fbFilled = FALSE, !.cancelledSeen = FALSE,
                                    !.spreadSeen = FALSE]
       ELSE /\ chunk' = chunk
            /\ pc' = "done"
            /\ trade' = "success"
            /\ hist' = [hist EXCEPT !.reconciled = @ + 1]
    /\ stack' = <<>>
    /\ attempt' = 1 /\ poll' = 0 /\ cycle' = 0
    /\ ids' = [A |-> 0, B |-> 0]
    /\ stat' = NoStat
    /\ res' = NoRes
    /\ call' = NoCall
    /\ UNCHANGED <<venueVars, storeVars, raised>>
    /\ IF chunk < NumChunks THEN fee' = fee
       ELSE \E reply \in TopUpReplies : fee' = CheckAndReconcile(fee, reply)
    /\ probe' = probe

\* KeyboardInterrupt in run(): the bot logs the interruption and shuts down
UserAbort ==
    /\ trade = "running"
    /\ trade' = "interrupted"
    /\ pc' = "done"
    /\ stack' = <<>>
    /\ attempt' = 1 /\ poll' = 0 /\ cycle' = 0
    /\ ids' = [A |-> 0, B |-> 0]
    /\ stat' = NoStat
    /\ res' = NoRes
    /\ call' = NoCall
    /\ UNCHANGED <<venueVars, storeVars, chunk, raised, outcome, hist>>
    /\ UNCHANGED auxVars

\* OrderMonitor.monitor_loop, the reconciliation poll of the monitor's own
\* thread.  get_pending_orders reads the order ids whose row is PLACED
\* (hist.pending holds the list being worked through); Venue-B ids are
\* skipped by check_coindcx_order while its stream is connected, so only
\* Venue-A ids are kept.  Nothing pending: sleep and read again.
PendingOrders == {r.oid : r \in {q \in rows : q.status = "PLACED" /\ q.ex = "Bybit"}}

ReconcileFetch ==
    /\ hist.pending = {}
    /\ PendingOrders /= {}
    /\ hist' = [hist EXCEPT !.pending = PendingOrders]
    /\ UNCHANGED <<venueVars, storeVars, orchVars>>
    /\ UNCHANGED auxVars

\* check_bybit_order for the next id of the list (ORDER BY placed_at DESC):
\* an id that is not among the venue's open orders is written FILLED, found
\* in the order history as Filled or not; an open order or a failed request
\* changes no status.
ReconcileCheck ==
    /\ hist.pending /= {}
    /\ LET o == CHOOSE x \in hist.pending : \A y \in hist.pending : y <= x
       IN  /\ hist' = [hist EXCEPT !.pending = @ \ {o}]
           /\ \/ UNCHANGED <<rows, lastEvent>>
              \/ /\ ~Live(o)
                 /\ rows' = SetRowStatus(o, "FILLED")
                 /\ lastEvent' = IF RowOf(o) /= {}
                                 THEN [lastEvent EXCEPT ![o] = "FILLED"]
                                 ELSE lastEvent
    /\ UNCHANGED <<venueVars, rejections, orchVars>>
    /\ UNCHANGED auxVars

Next ==
    \/ VenueFill \/ VenuePartial \/ VenueCancel \/ Ingest
    \/ PlaceQuote \/ BybitSubmit \/ BybitPoll \/ BybitApiCheck \/ PlaceAfterA
    \/ CoinDCXSubmit \/ PlaceAfterB \/ PlaceRecord
    \/ AMPoll \/ AMModCheck \/ AMOrderError \/ AMPrice \/ AMSpread \/ AMFix
    \/ CancelCheck \/ CancelRequest \/ CancelFinish
    \/ ResolveCheck \/ ResolveNewOrder \/ ResolveModify \/ ResolveFallback
    \/ MarketSubmit \/ MarketRecord \/ MarketWait
    \/ ChunkDone \/ UserAbort
    \/ ReconcileFetch \/ ReconcileCheck

Spec == Init /\ [][Next]_vars

\* ------------------------------------------------------------ properties

TypeOK ==
    /\ nextId \in 1..(MaxOrders + 1)
    /\ \A ex \in Exchanges : Len(stream[ex]) <= MaxStream
    /\ \A r \in rows : r.oid \in OrderIds /\ r.seq \in Chunks
    /\ chunk \in Chunks
    /\ trade \in {"running", "success", "failed", "interrupted"}

\* No handler writes OPEN for a Venue-B order: its rows go from PLACED to
\* FILLED or CANCELLED, so the branches on coindcx_status == 'OPEN' are not
\* taken.
CoinDCXNeverOpen == \A r \in rows : r.ex = "CoinDCX" => r.status /= "OPEN"

\* A leg of chunk c counts as FILLED when its row says so, or an order of the
\* leg was executed in full at the venue or has FILLED as its latest event.
LegFilled(c, ex) ==
    \/ \E r \in rows : r.seq = c /\ r.ex = ex /\ r.status = "FILLED"
    \/ \E o \in OrderIds : /\ ord[o].seq = c /\ ord[o].ex = ex
                           /\ (ord[o].st = "filled" \/ lastEvent[o] = "FILLED")

\* C1: a chunk returns success only with both of its legs FILLED, chunk k+1
\* is started only after chunk k returned success, and any other outcome of a
\* chunk aborts the trade.
C1_SuccessOnlyWhenBothFilled ==
    \A c \in Chunks :
        /\ outcome[c] = "success" => LegFilled(c, "Bybit") /\ LegFilled(c, "CoinDCX")
        /\ (c + 1) \in hist.started => outcome[c] = "success"
        /\ outcome[c] \notin {"none", "success"} => trade = "failed"

\* C2: once a Venue-B submission of the placement has failed, the placement
\* does nothing but roll back: it raises the Order error, and the cancel for
\* the accepted Venue-A order was sent before.
C2_RollbackBeforeError ==
    (hist.bFailed /\ trade /= "interrupted") =>
        \/ pc = "PC_submit"
        \/ raised = "Order" /\ \E o \in hist.cancelSent : ord[o].ex = "Bybit"

\* C3: one resolver invocation makes at most two limit-order submissions, one
\* for each of its two re-price attempts.
C3_ResolverBounded == res.active => hist.rSubmits <= 2

\* C4: no market order is submitted for a leg whose limit order was recorded
\* FILLED when the market fallback checked or cancelled it.
C4_NoMarketAfterRecordedFill == ~hist.mktAfterFilled

\* C5: the ingestion thread never processes an event of a market order whose
\* row is not in the orders table yet.
C5_MarketRowBeforeFirstEvent == hist.noRow = {}

\* C6: after a trade aborted, by an error or by the user, no order of the
\* trade rests at either venue.
C6_NoOpenOrderAfterAbort ==
    trade \in {"failed", "interrupted"} => \A o \in OrderIds : ~Live(o)

\* C7: after a modification cycle saw one leg CANCELLED and the other OPEN, the
\* loop is in the handling of that case or has raised the Order error; it
\* polls no further.
C7_CancelledLegRaisesOrder ==
    (hist.cancelledSeen /\ trade /= "interrupted") =>
        \/ pc = "AM_orderErr"
        \/ stack /= <<>> /\ stack[Len(stack)] = "AM_orderErr"
        \/ raised = "Order"

\* C8: after a modification cycle saw the spread above the maximum, the loop
\* is cancelling the two legs or has raised the Spread error; it polls no
\* further.
C8_WideSpreadRaisesSpread ==
    (hist.spreadSeen /\ trade /= "interrupted") =>
        \/ stack /= <<>> /\ stack[Len(stack)] \in {"AM_spreadB", "AM_spreadRaise"}
        \/ pc \in {"AM_spreadB", "AM_spreadRaise"}
        \/ raised = "Spread"

\* C9: when the placement raises the Spread error, no order of the chunk was
\* submitted to either venue and the orders table holds no row of the chunk.
C9_SpreadBeforeAnySubmit ==
    (raised = "Spread" /\ ~hist.spreadSeen) =>
        /\ \A o \in OrderIds : ord[o].seq /= chunk
        /\ \A r \in rows : r.seq /= chunk

C9_Witness == raised = "Spread" /\ ~hist.spreadSeen /\ chunk = 2 /\ rows /= {}

\* C10: every Venue-B order of a chunk was submitted after a Venue-A order of
\* that chunk was submitted and confirmed accepted.
C10_VenueAConfirmedFirst ==
    \A b \in OrderIds :
        ord[b].ex = "CoinDCX" =>
            /\ ord[b].seq \in hist.aConfirmed
            /\ \E a \in 1..(b - 1) : ord[a].ex = "Bybit" /\ ord[a].seq = ord[b].seq

C10_Witness ==
    \E a, b \in OrderIds :
        /\ a < b /\ ord[a].seq = ord[b].seq
        /\ ord[a].ex = "Bybit" /\ ord[a].st = "rejected"
        /\ ord[b].ex = "CoinDCX"
        /\ rejections[a] = "EC_PostOnlyWillTakeLiquidity"

\* The rows of the chunks before chunk c.
RowsBefore(rs, c) == {r \in rs : r.seq < c}

\* C11: once a chunk has left with an exception (Spread, Order or any other)
\* the trade has failed and execute_trade has returned: no later chunk was
\* started, no order and no row of a later chunk exists, the final
\* reconciliation has not run and the reconciliation row is as it was
\* initialised.  The step that raises leaves the rows of the earlier chunks as
\* they are, and after it the orchestrator takes no step: those rows change
\* only with an event the ingestion thread takes from a stream or with a
\* check of the monitor's reconciliation poll.
C11_FailureStopsTrade ==
    /\ [](raised /= "none" =>
            /\ trade = "failed" /\ pc = "done"
            /\ outcome[chunk] = raised
            /\ hist.started = 1..chunk
            /\ \A c \in Chunks : c > chunk =>
                   /\ outcome[c] = "none"
                   /\ \A r \in rows : r.seq /= c
                   /\ \A o \in OrderIds : ord[o].seq /= c
            /\ hist.reconciled = 0
            /\ fee = NewFeeRow(NumChunks))
    /\ [][/\ (raised = "none" /\ raised' /= "none") =>
                RowsBefore(rows', chunk) = RowsBefore(rows, chunk)
          /\ raised /= "none" =>
                /\ orchVars' = orchVars /\ fee' = fee
                /\ rows' /= rows =>
                       \/ \E ex \in Exchanges : /\ stream[ex] /= <<>>
                                                /\ stream'[ex] = Tail(stream[ex])
                       \/ hist'.pending /= hist.pending]_vars

C11_Witness ==
    /\ raised \in {"Spread", "Order"} /\ trade = "failed"
    /\ chunk = 2 /\ outcome[1] = "success"
    /\ \E r \in rows : r.seq = 1

\* ------------------------------------------ _check_order_status_from_db
\*
\* One call of _check_order_status_from_db read by read, the store changing
\* between reads as the ingestion thread and the orchestrator's own writes
\* change it.  probe holds the call: the call site, max_retries, the attempt
\* number, the two values the next read finds, the reads done, what the call
\* returned and how that reached the trade.

RowStatuses == {"NULL", "PLACED", "OPEN", "FILLED", "CANCELLED", "REJECTED"}
EventTypes == {"none", "PLACED", "MODIFIED", "FILLED", "CANCELLED", "REJECTED"}
RetryLimits == {SafetyRetries, DefaultRetries, NotFoundRetries}
\* the Phase-1 poll, the pre-modification check inside the try block, and the
\* resolver
StatusSites == {"poll", "modcheck", "resolver"}

\* What the caller makes of the call's end: the exception of a Phase-1 poll
\* or of the resolver ends the chunk and the trade; the one of the
\* pre-modification check is caught by the except clause of the modification
\* block, which logs it and goes on with the loop.
StatusCaller(site, d) ==
    IF d /= "RAISE" THEN "returned"
    ELSE IF site = "modcheck" THEN "swallowed" ELSE "fatal"

StatusInit ==
    /\ TradeInit
    /\ \E site \in StatusSites, n \in RetryLimits, os \in RowStatuses,
          ev \in EventTypes :
         probe = [fn |-> "status", site |-> site, n |-> n, a |-> 1,
                  os |-> os, ev |-> ev, reads |-> 0, out |-> "pending",
                  end |-> "none", filledOpen |-> TRUE, absentPlaced |-> TRUE,
                  sawAbsent |-> FALSE]

\* One pass of the for loop: both SELECTs and the decision on them.
StatusRead ==
    /\ probe.fn = "status" /\ probe.out = "pending"
    /\ LET d == StatusDecision(probe.os, probe.ev, probe.a, probe.n)
       IN  probe' = [probe EXCEPT
              !.reads = @ + 1,
              !.a = IF d = "RETRY" THEN @ + 1 ELSE @,
              !.out = IF d = "RETRY" THEN "pending" ELSE d,
              !.end = IF d = "RETRY" THEN "none" ELSE StatusCaller(probe.site, d),
              !.filledOpen = @ /\ probe.ev = "FILLED"
                               /\ probe.os \in {"NULL", "OPEN", "PLACED"},
              !.absentPlaced = @ /\ probe.ev = "PLACED" /\ probe.os = "NULL",
              !.sawAbsent = probe.os = "NULL"]
    /\ UNCHANGED <<venueVars, storeVars, orchVars, hist, fee>>

\* A SELECT fails: the except clause retries, and raises on the last attempt.
StatusReadFails ==
    /\ probe.fn = "status" /\ probe.out = "pending"
    /\ probe' = [probe EXCEPT
          !.a = IF probe.a < probe.n THEN @ + 1 ELSE @,
          !.out = IF probe.a < probe.n THEN "pending" ELSE "RAISE",
          !.end = IF probe.a < probe.n THEN "none"
                  ELSE StatusCaller(probe.site, "RAISE"),
          !.filledOpen = FALSE, !.absentPlaced = FALSE, !.sawAbsent = FALSE]
    /\ UNCHANGED <<venueVars, storeVars, orchVars, hist, fee>>

\* Between two reads another writer changes the order's row or logs an event.
StoreChange ==
    /\ probe.fn = "status" /\ probe.out = "pending" /\ probe.reads > 0
    /\ \E os \in RowStatuses, ev \in EventTypes :
         /\ <<os, ev>> /= <<probe.os, probe.ev>>
         /\ probe' = [probe EXCEPT !.os = os, !.ev = ev]
    /\ UNCHANGED <<venueVars, storeVars, orchVars, hist, fee>>

StatusNext == StatusRead \/ StatusReadFails \/ StoreChange

StatusSpec == StatusInit /\ [][StatusNext]_vars

\* ------------------------------------------------- market order fallback
\*
\* The market-order fallback of _resolve_naked_position with quantities: the
\* limit order of the unfilled leg has executed probe.exec of its probe.qty
\* steps when the fallback starts.  probe.row is the orders row of the leg's
\* chunk key with its fee columns.

\* The fee a venue charges for executing q steps.
FeeOf(q) == q

LimitRow(s) ==
    [oid |-> 1, status |-> s, otype |-> "limit", qty |-> ChunkQty,
     isPartial |-> FALSE, partialQty |-> 0, partialFee |-> 0,
     cumQty |-> 0, cumFee |-> 0]

\* Database.upsert_order without partial_details on the row of the key:
\* order id, quantity, status, type and the partial_* columns take the new
\* values (NULL for the partial ones), cumexecqty and cumexecfee keep the old
\* value when the new one is NULL.
UpsertMarketRow(old, oid, q) ==
    [old EXCEPT !.oid = oid, !.status = "PLACED", !.otype = "market",
                !.qty = q, !.isPartial = FALSE, !.partialQty = 0,
                !.partialFee = 0]

\* Database.get_chunk_total_fees: for Venue-A the row's fee plus the partial
\* order's fee, for Venue-B the partial order's fee only.
ChunkTotalFees(row, ex) ==
    IF ex = "Bybit" THEN row.cumFee + row.partialFee ELSE row.partialFee

\* The quantity the fallback hands to _place_market_order.
MarketQuantity(qty, exec) == qty

FallbackInit ==
    /\ TradeInit
    /\ \E ex \in Exchanges, s \in {"PLACED", "OPEN"} :
         probe = [fn |-> "fallback", pc |-> "cancel", ex |-> ex,
                  qty |-> ChunkQty, exec |-> 0, pending |-> 0, mktQty |-> 0,
                  mktExec |-> 0, row |-> LimitRow(s), result |-> "none"]

FallbackFixed == <<venueVars, storeVars, orchVars, hist, fee>>

\* The venue executes one more step of the limit order before it is
\* cancelled.  Venue-A streams every execution; of Venue-B's events only the
\* one of the complete fill changes a status.  probe.pending is the
\* cumulative quantity of the event in flight.
FallbackExecution ==
    /\ probe.fn = "fallback" /\ probe.pc = "cancel" /\ probe.exec < probe.qty
    /\ probe' = [probe EXCEPT
          !.exec = @ + 1,
          !.pending = IF probe.ex = "Bybit" \/ probe.exec + 1 = probe.qty
                      THEN probe.exec + 1 ELSE @]
    /\ UNCHANGED FallbackFixed

\* update_order_status_with_fees for the event in flight: UPDATE ... WHERE
\* order_id, FILLED with the cumulative quantity and fee; no row is changed
\* when the chunk's row carries another order id by now.
FallbackIngest ==
    /\ probe.fn = "fallback" /\ probe.pending > 0
    /\ probe' = [probe EXCEPT
          !.pending = 0,
          !.row = IF probe.row.oid = 1
                  THEN [@ EXCEPT !.status = "FILLED", !.cumQty = probe.pending,
                                 !.cumFee = FeeOf(probe.pending)]
                  ELSE @]
    /\ UNCHANGED FallbackFixed

\* _cancel_bybit_order / _cancel_coindcx_order: False for an order recorded
\* FILLED (the resolver returns, no market order), else the venue cancels
\* what is left and the row is set to CANCELLED.
FallbackCancel ==
    /\ probe.fn = "fallback" /\ probe.pc = "cancel"
    /\ probe' = IF probe.row.status = "FILLED"
                THEN [probe EXCEPT !.pc = "done", !.result = "filled"]
                ELSE [probe EXCEPT !.pc = "safety", !.row.status = "CANCELLED"]
    /\ UNCHANGED FallbackFixed

\* the final safety check before the market order
FallbackSafety ==
    /\ probe.fn = "fallback" /\ probe.pc = "safety"
    /\ probe' = IF probe.row.status = "FILLED"
                THEN [probe EXCEPT !.pc = "done", !.result = "filled"]
                ELSE [probe EXCEPT !.pc = "market"]
    /\ UNCHANGED FallbackFixed

\* _place_market_order: the venue call, then the upsert of the market order
\* on the chunk's row.
FallbackMarket ==
    /\ probe.fn = "fallback" /\ probe.pc = "market"
    /\ \/ probe' = [probe EXCEPT !.pc = "done", !.result = "raised"]
       \/ LET q == MarketQuantity(probe.qty, probe.exec)
          IN  probe' = [probe EXCEPT !.pc = "wait", !.mktQty = q,
                                     !.row = UpsertMarketRow(@, 2, q)]
    /\ UNCHANGED FallbackFixed

\* The market order executes in full; update_order_status_with_fees writes
\* FILLED with the order's executed quantity and fee, and the wait returns.
FallbackFill ==
    /\ probe.fn = "fallback" /\ probe.pc = "wait"
    /\ probe' = [probe EXCEPT
          !.pc = "done", !.result = "market", !.mktExec = probe.mktQty,
          !.row = [@ EXCEPT !.status = "FILLED", !.cumQty = probe.mktQty,
                            !.cumFee = FeeOf(probe.mktQty)]]
    /\ UNCHANGED FallbackFixed

FallbackNext ==
    \/ FallbackExecution \/ FallbackIngest \/ FallbackCancel \/ FallbackSafety
    \/ FallbackMarket \/ FallbackFill

FallbackSpec == FallbackInit /\ [][FallbackNext]_vars

\* -------------------------------------------------- the per-venue event tables
\*
\* The stream handlers of the two venues run in two threads of OrderMonitor
\* and share its one connection (autocommit off): what one thread has
\* executed and not yet committed is committed or rolled back by whichever
\* thread commits or rolls back next.  probe holds, per venue, the handler's
\* position and the number of the event it works on, the writes of the
\* connection's open transaction, the committed rows of the event tables,
\* the committed order-row effects, the events whose INSERT was executed
\* without error, and whether the event's order has a row.

MonitorInit ==
    /\ TradeInit
    /\ \E hr \in [Exchanges -> BOOLEAN] :
         probe = [fn |-> "ingest",
                  pcs |-> [ex \in Exchanges |-> "idle"],
                  k |-> [ex \in Exchanges |-> 0],
                  txn |-> {}, events |-> {}, effects |-> {}, inserted |-> {},
                  logFailed |-> {}, hasRow |-> hr]

MonitorFixed == <<venueVars, storeVars, orchVars, hist, fee>>

\* conn.commit(): every write of the open transaction becomes durable
Commit(p) ==
    [p EXCEPT !.events = @ \cup {w.ev : w \in {x \in p.txn : x.kind = "event"}},
              !.effects = @ \cup {w.ev : w \in {x \in p.txn : x.kind = "row"}},
              !.txn = {}]

\* conn.rollback(): every write of the open transaction is dropped
Rollback(p) == [p EXCEPT !.txn = {}]

\* the venue delivers the next event to its handler
MonitorDeliver ==
    /\ probe.fn = "ingest"
    /\ \E ex \in Exchanges :
         /\ probe.pcs[ex] = "idle" /\ probe.k[ex] < MaxEvents
         /\ probe' = [probe EXCEPT !.pcs[ex] = "log", !.k[ex] = @ + 1]
    /\ UNCHANGED MonitorFixed

\* _log_bybit_event_to_db / _log_coindcx_event_to_db, the INSERT: executed,
\* or failing into the except clause, which rolls back and lets the handler
\* go on.
MonitorLog ==
    /\ probe.fn = "ingest"
    /\ \E ex \in Exchanges :
         /\ probe.pcs[ex] = "log"
         /\ LET e == <<ex, probe.k[ex]>>
            IN  \/ probe' = [probe EXCEPT
                       !.txn = @ \cup {[kind |-> "event", ev |-> e]},
                       !.inserted = @ \cup {e},
                       !.pcs[ex] = "logged"]
                \/ probe' = [Rollback(probe) EXCEPT !.pcs[ex] = "update"]
    /\ UNCHANGED MonitorFixed

\* _log_*_event_to_db, the commit after the INSERT
MonitorLogCommit ==
    /\ probe.fn = "ingest"
    /\ \E ex \in Exchanges :
         /\ probe.pcs[ex] = "logged"
         /\ probe' = [Commit(probe) EXCEPT !.pcs[ex] = "update"]
    /\ UNCHANGED MonitorFixed

\* update_order_status: UPDATE of the order's row and the lifecycle entry
\* when the row exists; a failure rolls back and ends the handler.  The
\* statement that fails is the SELECT or the UPDATE, or, with a row, the
\* INSERT into order_lifecycle_log after the UPDATE was executed.
MonitorUpdate ==
    /\ probe.fn = "ingest"
    /\ \E ex \in Exchanges :
         /\ probe.pcs[ex] = "update"
         /\ LET e == <<ex, probe.k[ex]>>
            IN  \/ probe' = [probe EXCEPT
                       !.txn = IF probe.hasRow[ex]
                               THEN @ \cup {[kind |-> "row", ev |-> e]} ELSE @,
                       !.pcs[ex] = "updated"]
                \/ probe' = [Rollback(probe) EXCEPT !.pcs[ex] = "idle"]
                \/ /\ probe.hasRow[ex]
                   /\ probe' = [Rollback([probe EXCEPT
                                    !.txn = @ \cup {[kind |-> "row", ev |-> e]}])
                                   EXCEPT !.pcs[ex] = "idle",
                                          !.logFailed = @ \cup {e}]
    /\ UNCHANGED MonitorFixed

\* update_order_status, the final commit
MonitorCommit ==
    /\ probe.fn = "ingest"
    /\ \E ex \in Exchanges :
         /\ probe.pcs[ex] = "updated"
         /\ probe' = [Commit(probe) EXCEPT !.pcs[ex] = "idle"]
    /\ UNCHANGED MonitorFixed

MonitorNext ==
    \/ MonitorDeliver \/ MonitorLog \/ MonitorLogCommit \/ MonitorUpdate
    \/ MonitorCommit

MonitorSpec == MonitorInit /\ [][MonitorNext]_vars

\* ------------------------------------- Venue-B amend with cancel + replace
\*
\* _modify_coindcx_order and _cancel_and_replace_coindcx_order, run for the
\* Venue-B limit order of chunk 1 while both venues and the ingestion thread
\* go on.  probe holds the call: its position, the id it was called with, the
\* id of the replacement, the placement attempt, the id the caller goes on
\* with (coindcx_order_id of the loop, current_order_id of the resolver) and
\* how the call ended.

AmendCallers == {"loop", "resolver"}

\* INSERT INTO orders under the UNIQUE(chunk_group_id, chunk_sequence,
\* exchange) constraint that upsert_order's ON CONFLICT clause relies on:
\* "conflict" when a row of the key exists.
InsertRow(rs, row) ==
    IF \E r \in rs : r.seq = row.seq /\ r.ex = row.ex THEN "conflict"
    ELSE rs \cup {row}

AmendInit ==
    /\ ord = [o \in OrderIds |->
                 CASE o = 1 -> [st |-> "open", ex |-> "Bybit", typ |-> "limit", seq |-> 1]
                   [] o = 2 -> [st |-> "open", ex |-> "CoinDCX", typ |-> "limit", seq |-> 1]
                   [] OTHER -> NoOrder]
    /\ nextId = 3
    /\ stream = [ex \in Exchanges |-> <<>>]
    /\ rows = {[seq |-> 1, ex |-> "Bybit", oid |-> 1, status |-> "OPEN", otype |-> "limit"],
               [seq |-> 1, ex |-> "CoinDCX", oid |-> 2, status |-> "PLACED", otype |-> "limit"]}
    /\ lastEvent = [o \in OrderIds |-> IF o \in {1, 2} THEN "PLACED" ELSE "none"]
    /\ rejections = [o \in OrderIds |-> "none"]
    /\ pc = "amend" /\ stack = <<>> /\ chunk = 1
    /\ attempt = 1 /\ poll = 0 /\ cycle = 0
    /\ ids = [A |-> 1, B |-> 2]
    /\ stat = NoStat /\ res = NoRes /\ call = NoCall
    /\ raised = "none"
    /\ outcome = [c \in Chunks |-> "none"]
    /\ trade = "running"
    /\ hist = NoHist
    /\ fee = NewFeeRow(NumChunks)
    /\ \E c \in AmendCallers :
         probe = [fn |-> "modify", pc |-> "edit", caller |-> c, old |-> 2,
                  new |-> 0, attempt |-> 1, cur |-> 2, result |-> "none"]

AmendFixed == <<rejections, orchVars, hist, fee>>

\* The call ends: by a return (the caller takes the returned id, None makes
\* it leave) or by an exception, which both callers log and pass over.
AmendEnd(how, id) ==
    [probe EXCEPT !.pc = "done", !.result = how,
                  !.cur = IF how = "returned" THEN id ELSE @]

\* _modify_coindcx_order: coindcx.edit_order.  It succeeds (same id), answers
\* HTTP 422 (amend not supported: cancel + replace), or fails otherwise.
AmendEdit ==
    /\ probe.fn = "modify" /\ probe.pc = "edit"
    /\ \/ probe' = AmendEnd("returned", probe.old)
       \/ probe' = [probe EXCEPT !.pc = "check"]
       \/ probe' = AmendEnd("raised", 0)
    /\ UNCHANGED <<venueVars, rows, lastEvent, AmendFixed>>

\* _cancel_and_replace_coindcx_order, step 0: nothing is done for an order
\* read as FILLED or CANCELLED.
ReplaceCheck ==
    /\ probe.fn = "modify" /\ probe.pc = "check"
    /\ LET s == CheckStatus(probe.old, DefaultRetries)
       IN  probe' = CASE s \in {"FILLED", "CANCELLED"} -> AmendEnd("none", 0)
                      [] s = "RAISE" -> AmendEnd("raised", 0)
                      [] OTHER -> [probe EXCEPT !.pc = "cancel"]
    /\ UNCHANGED <<venueVars, rows, lastEvent, AmendFixed>>

\* step 2: coindcx.cancel_order; a failure is logged and passed over.
ReplaceCancel ==
    /\ probe.fn = "modify" /\ probe.pc = "cancel"
    /\ \/ /\ Live(probe.old) /\ CanEmit("CoinDCX")
          /\ ord' = [ord EXCEPT ![probe.old].st = "cancelled"]
          /\ stream' = Emit(stream, "CoinDCX", probe.old, "Cancelled")
       \/ UNCHANGED <<ord, stream>>
    /\ probe' = [probe EXCEPT !.pc = "place", !.attempt = 1]
    /\ UNCHANGED <<nextId, rows, lastEvent, AmendFixed>>

\* step 3: coindcx.place_order, at most three attempts.
ReplacePlace ==
    /\ probe.fn = "modify" /\ probe.pc = "place"
    /\ \/ /\ probe' = IF probe.attempt < ReplaceRetries
                      THEN [probe EXCEPT !.attempt = @ + 1]
                      ELSE AmendEnd("raised", 0)
          /\ UNCHANGED venueVars
       \/ /\ Submitted("CoinDCX", "limit", ord[probe.old].seq, "open", "none")
          /\ probe' = [probe EXCEPT !.pc = "record", !.new = nextId]
    /\ UNCHANGED <<rows, lastEvent, AmendFixed>>

\* step 4: in one transaction UPDATE the old row to CANCELLED and INSERT a row
\* for the new order under the old row's chunk key; a failing INSERT leaves
\* the transaction uncommitted and the exception goes to the caller.  The
\* resolver logs REPLACED for an id that changed.
ReplaceRecord ==
    /\ probe.fn = "modify" /\ probe.pc = "record"
    /\ LET old == CHOOSE r \in RowOf(probe.old) : TRUE
           ins == InsertRow(SetRowStatus(probe.old, "CANCELLED"),
                            [seq |-> old.seq, ex |-> "CoinDCX", oid |-> probe.new,
                             status |-> "PLACED", otype |-> "limit"])
       IN  IF ins = "conflict"
           THEN /\ probe' = AmendEnd("raised", 0)
                /\ UNCHANGED <<rows, lastEvent>>
           ELSE /\ rows' = ins
                /\ probe' = AmendEnd("returned", probe.new)
                /\ lastEvent' = IF probe.caller = "resolver"
                                THEN [lastEvent EXCEPT ![probe.new] = "REPLACED"]
                                ELSE lastEvent
    /\ UNCHANGED <<venueVars, AmendFixed>>

AmendNext ==
    \/ VenueFill \/ VenuePartial \/ VenueCancel \/ Ingest
    \/ AmendEdit \/ ReplaceCheck \/ ReplaceCancel \/ ReplacePlace \/ ReplaceRecord

AmendSpec == AmendInit /\ [][AmendNext]_vars

\* At most one row per (chunk, venue).
OneRowPerKey ==
    \A r1, r2 \in rows : (r1.seq = r2.seq /\ r1.ex = r2.ex) => r1 = r2

\* cancel + replace has placed the replacement order and the call has ended.
Replaced == probe.fn = "modify" /\ probe.pc = "done" /\ probe.new /= 0

C13_FilledEventWins ==
    /\ (probe.fn = "status" /\ probe.out /= "pending" /\ probe.filledOpen) =>
           probe.out = "FILLED" /\ probe.reads <= probe.n
    /\ (probe.fn = "status" /\ probe.reads > 0 /\ probe.filledOpen
            /\ probe.sawAbsent) => probe.out = "FILLED"
    /\ (probe.fn = "status" /\ probe.filledOpen) => probe.reads <= probe.n

C13_Witness ==
    /\ probe.fn = "status" /\ probe.filledOpen /\ probe.out = "FILLED"
    /\ probe.os = "PLACED" /\ probe.reads = probe.n /\ probe.n = DefaultRetries

\* C14: a call that on every one of its max_retries reads found the row
\* absent and PLACED as the latest lifecycle event raises instead of
\* returning a status, and the exception ends the trade.
C14_AbsentPlacedIsFatal ==
    (probe.fn = "status" /\ probe.out /= "pending" /\ probe.absentPlaced) =>
        /\ probe.out = "RAISE" /\ probe.reads = probe.n
        /\ probe.end = "fatal"

\* C16: when the fallback has cancelled a partially executed limit order and
\* its market order is filled, the market order was for the outstanding
\* quantity, the row keeps the partial order's quantity and fee in its
\* partial-completion columns, the leg has executed the chunk quantity, and
\* chunk_total_fees is the sum of both orders' fees.
C16_FallbackCompletesPartial ==
    (probe.fn = "fallback" /\ probe.result = "market" /\ probe.exec > 0) =>
        /\ probe.mktQty = probe.qty - probe.exec
        /\ probe.row.isPartial
        /\ probe.row.partialQty = probe.exec
        /\ probe.row.partialFee = FeeOf(probe.exec)
        /\ probe.exec + probe.mktExec = probe.qty
        /\ ChunkTotalFees(probe.row, probe.ex)
               = FeeOf(probe.exec) + FeeOf(probe.mktExec)

\* The events whose handler is past the commit of its event-table INSERT.
PastLogging ==
    {e \in probe.inserted :
        e[2] < probe.k[e[1]] \/ probe.pcs[e[1]] \in {"update", "updated", "idle"}}

\* C17: every event whose INSERT was executed has its row in the venue's
\* event table as soon as its handler has left the logging step, whatever
\* happens to the later side effects and whether or not the order has a row;
\* and no order-row effect of an event is durable before its event row.
C17_EventRowNeverMissing ==
    probe.fn = "ingest" =>
        /\ PastLogging \subseteq probe.events
        /\ (probe.effects \cap probe.inserted) \subseteq probe.events

\* ------------------------------------------------------------ lifecycle log

\* The event types the contract orders after PLACED.
AfterPlaced == {"MODIFIED", "REPLACED", "CANCELLED", "FILLED", "REJECTED"}

\* a step that writes a lifecycle entry of one of these types for order o
LogsAfterPlaced(o) ==
    /\ lastEvent'[o] /= lastEvent[o]
    /\ lastEvent'[o] \in AfterPlaced

\* a step that writes the MARKET_FALLBACK entry of market order o
LogsFallback(o) ==
    /\ lastEvent'[o] /= lastEvent[o]
    /\ lastEvent'[o] = "MARKET_FALLBACK"

\* C18: in the lifecycle log an entry of type MODIFIED, REPLACED, CANCELLED,
\* FILLED or REJECTED is written for an order id only after a PLACED entry of
\* that id, and a MARKET_FALLBACK entry is written only after a CANCELLED
\* entry of the limit order of the same chunk leg.
C18_LifecycleOrder ==
    [][\A o \in OrderIds :
          /\ LogsAfterPlaced(o) => o \in hist.placed
          /\ LogsFallback(o) => res.oid \in hist.cancelLogged]_vars

\* ------------------------------------------- the reconciliation record alone

\* Calls of the reconciler made on one record.
MaxCalls == 5

\* initialize_trade_reconciliation has inserted the row of a trade of n
\* chunks; probe counts the calls and names the last one.
FeeInit ==
    /\ TradeStart
    /\ \E n \in Chunks : fee = NewFeeRow(n)
    /\ probe = [fn |-> "fee", calls |-> 0, last |-> "none", reply |-> "none"]

FeeFixed == <<venueVars, storeVars, orchVars, hist>>

\* record_bybit_fill(chunk_group_id, chunk_sequence): the UPDATE and commit,
\* or the except clause that rolls back and returns
FeeRecord ==
    /\ probe.fn = "fee" /\ probe.calls < MaxCalls
    /\ \/ \E amt \in FeeSteps : fee' = RecordBybitFill(fee, amt)
       \/ fee' = fee
    /\ probe' = [probe EXCEPT !.calls = @ + 1, !.last = "record",
                              !.reply = "none"]
    /\ UNCHANGED FeeFixed

\* check_and_reconcile(chunk_group_id); the call is a "submit" when it
\* reaches place_spot_order
FeeCheck ==
    /\ probe.fn = "fee" /\ probe.calls < MaxCalls
    /\ \E reply \in TopUpReplies :
         /\ fee' = CheckAndReconcile(fee, reply)
         /\ probe' = [probe EXCEPT
               !.calls = @ + 1,
               !.last = IF CheckAndReconcile(fee, "ok").topups > fee.topups
                        THEN "submit" ELSE "check",
               !.reply = IF CheckAndReconcile(fee, "ok").topups > fee.topups
                         THEN reply ELSE "none"]
    /\ UNCHANGED FeeFixed

FeeNext == FeeRecord \/ FeeCheck

FeeSpec == FeeInit /\ [][FeeNext]_vars

\* C19: on a reconciliation record completed_chunks never decreases and never
\* exceeds total_chunks, whatever sequence of record_bybit_fill and
\* check_and_reconcile calls is made, and a call that submits a top-up order
\* is made only when completed_chunks equals total_chunks.
C19_CompletedBounded ==
    /\ [](fee.completed <= fee.total)
    /\ [](probe.fn = "fee" /\ probe.last = "submit" => fee.completed = fee.total)
    /\ [][fee'.completed >= fee.completed]_vars

\* ------------------------------------------ reconciliation within the trade

\* The values _place_reconciliation_order and check_and_reconcile write to
\* reconciliation_status.
TopUpStatuses == {"COMPLETED", "SKIPPED_BELOW_MINIMUM", "FAILED"}

\* The trade at its last chunk: the same threads and steps as Spec, started
\* where the loop enters chunk NumChunks.  No reconciler call was made so far.
FinalInit ==
    /\ StartOfChunk(NumChunks)
    /\ fee = NewFeeRow(NumChunks)
    /\ probe = NoProbe

FinalSpec == FinalInit /\ [][Next]_vars

\* C20: when execute_trade has run every chunk to success and returned, the
\* reconciler has counted every chunk (completed_chunks = total_chunks) and
\* the record carries a top-up status among COMPLETED, SKIPPED_BELOW_MINIMUM
\* and FAILED.  execute_trade makes no call on the record after it returned,
\* so the status the record is to receive must be there in that state.
C20_ReconciledAtFinalization ==
    trade = "success" =>
        /\ fee.completed = fee.total
        /\ fee.status \in TopUpStatuses

\* C21: a check_and_reconcile call on a record whose chunks are all complete
\* submits the top-up exactly when the rounded shortfall is at least the
\* minimum order quantity and then leaves the record COMPLETED when the
\* submission succeeded and FAILED when it failed in any way (error response
\* or exception); otherwise it submits nothing and leaves the record
\* SKIPPED_BELOW_MINIMUM.
C21_FinalizationOutcome ==
    (probe.fn = "fee" /\ probe.last \in {"submit", "check"}
        /\ fee.completed = fee.total) =>
        IF fee.shortfall >= MinQty
        THEN /\ probe.last = "submit"
             /\ fee.status = IF probe.reply = "ok" THEN "COMPLETED" ELSE "FAILED"
        ELSE /\ probe.last = "check"
             /\ fee.status = "SKIPPED_BELOW_MINIMUM"

\* C22: at most one top-up order is submitted for a chunk group: once the
\* record carries a top-up status, a further check_and_reconcile call
\* submits no order.
C22_SingleTopUp ==
    /\ [](probe.fn = "fee" => fee.topups <= 1)
    /\ [][(probe.fn = "fee" /\ fee.status \in TopUpStatuses
             /\ probe'.calls > probe.calls)
           => probe'.last /= "submit"]_vars

\* ------------------------------------------------------ fees of one chunk

\* Fees are counted in steps of the venue's fee unit.
MaxFee == 2

\* The two rows of one chunk, both limit orders placed; probe.ex and
\* probe.out hold the venue and the result of the last
\* get_chunk_total_fees call ("none" after a write).
FeesInit ==
    /\ TradeInit
    /\ probe = [fn |-> "fees", tab |-> [ex \in Exchanges |-> LimitRow("PLACED")],
                ex |-> "none", out |-> 0]

FeesFixed == <<venueVars, storeVars, orchVars, hist, fee>>

\* The stream reports the fill of the row's current order: the Venue-A
\* handlers call update_order_status_with_fees, which writes cumexecfee; the
\* Venue-B handler calls update_order_status, which writes no fee.
FeesFill ==
    /\ probe.fn = "fees"
    /\ \E ex \in Exchanges, f \in 0..MaxFee :
         /\ probe.tab[ex].status /= "FILLED"
         /\ ex = "CoinDCX" => f = 0
         /\ probe' = [probe EXCEPT
               !.tab[ex].status = "FILLED",
               !.tab[ex].cumFee = IF ex = "Bybit" THEN f ELSE @,
               !.ex = "none", !.out = 0]
    /\ UNCHANGED FeesFixed

\* handle_partial_fill, step 5: upsert_order with is_partial_completion=True,
\* the partial order's fee in the venue's partial_* column and the completion
\* order's fee (0 when the event log had no fill details) as cumexecfee.
FeesPartial ==
    /\ probe.fn = "fees"
    /\ \E ex \in Exchanges, pf \in 0..MaxFee, cf \in 0..MaxFee :
         /\ ~probe.tab[ex].isPartial
         /\ probe.tab[ex].status /= "FILLED"
         /\ probe' = [probe EXCEPT
               !.tab[ex] = [@ EXCEPT !.oid = 2, !.status = "FILLED",
                                     !.otype = "market", !.isPartial = TRUE,
                                     !.partialFee = pf, !.cumFee = cf],
               !.ex = "none", !.out = 0]
    /\ UNCHANGED FeesFixed

\* get_chunk_total_fees(chunk_group_id, chunk_sequence, exchange)
FeesRead ==
    /\ probe.fn = "fees"
    /\ \E ex \in Exchanges :
         probe' = [probe EXCEPT !.ex = ex,
                                !.out = ChunkTotalFees(probe.tab[ex], ex)]
    /\ UNCHANGED FeesFixed

FeesNext == FeesFill \/ FeesPartial \/ FeesRead

FeesSpec == FeesInit /\ [][FeesNext]_vars

\* C23: get_chunk_total_fees returns, for a row flagged as a partial
\* completion, the partial order's fee plus the completion order's fee of the
\* venue asked for, and for a row without the flag the fee of the current
\* order alone.
C23_TotalFeesSum ==
    (probe.fn = "fees" /\ probe.ex /= "none") =>
        LET row == probe.tab[probe.ex]
        IN  probe.out = IF row.isPartial THEN row.partialFee + row.cumFee
                        ELSE row.cumFee

\* ------------------------------------------- Python floats (IEEE binary64)

\* Natural numbers of any size as sequences of limbs in base 2^15, lowest
\* limb first, with no 0 at the high end; <<>> is zero.  The quantities of
\* the chunker are Python floats, whose 53-bit significands do not fit TLC's
\* integers.
LimbBits == 15
Base == 2 ^ LimbBits

RECURSIVE BNFromInt(_)
BNFromInt(n) == IF n = 0 THEN <<>> ELSE <<n % Base>> \o BNFromInt(n \div Base)

RECURSIVE BNToInt(_)
BNToInt(b) == IF b = <<>> THEN 0 ELSE Head(b) + Base * BNToInt(Tail(b))

RECURSIVE BNNorm(_)
BNNorm(b) ==
    IF b = <<>> THEN <<>>
    ELSE IF b[Len(b)] = 0 THEN BNNorm(SubSeq(b, 1, Len(b) - 1)) ELSE b

RECURSIVE BNAddC(_, _, _)
BNAddC(a, b, c) ==
    IF a = <<>> /\ b = <<>> THEN (IF c = 0 THEN <<>> ELSE <<c>>)
    ELSE LET x == IF a = <<>> THEN 0 ELSE Head(a)
             y == IF b = <<>> THEN 0 ELSE Head(b)
             s == x + y + c
         IN  <<s % Base>> \o BNAddC(IF a = <<>> THEN <<>> ELSE Tail(a),
                                    IF b = <<>> THEN <<>> ELSE Tail(b), s \div Base)

BNAdd(a, b) == BNAddC(a, b, 0)

\* a - b for a >= b
RECURSIVE BNSubB(_, _, _)
BNSubB(a, b, c) ==
    IF a = <<>> THEN <<>>
    ELSE LET y == IF b = <<>> THEN 0 ELSE Head(b)
             d == Head(a) - y - c
         IN  <<(d + Base) % Base>> \o
                 BNSubB(Tail(a), IF b = <<>> THEN <<>> ELSE Tail(b),
                        IF d < 0 THEN 1 ELSE 0)

BNSub(a, b) == BNNorm(BNSubB(a, b, 0))

\* -1, 0 or 1
RECURSIVE BNCmp(_, _)
BNCmp(a, b) ==
    IF Len(a) /= Len(b) THEN (IF Len(a) < Len(b) THEN -1 ELSE 1)
    ELSE IF a = <<>> THEN 0
    ELSE IF a[Len(a)] /= b[Len(b)] THEN (IF a[Len(a)] < b[Len(b)] THEN -1 ELSE 1)
    ELSE BNCmp(SubSeq(a, 1, Len(a) - 1), SubSeq(b, 1, Len(b) - 1))

\* a * k + c for 0 < k < Base, 0 <= c < Base
RECURSIVE BNMulC(_, _, _)
BNMulC(a, k, c) ==
    IF a = <<>> THEN (IF c = 0 THEN <<>> ELSE <<c>>)
    ELSE LET p == Head(a) * k + c
         IN  <<p % Base>> \o BNMulC(Tail(a), k, p \div Base)

RECURSIVE BNMul(_, _)
BNMul(a, b) ==
    IF a = <<>> \/ b = <<>> THEN <<>>
    ELSE LET rest == BNMul(Tail(a), b)
             low == IF Head(a) = 0 THEN <<>> ELSE BNMulC(b, Head(a), 0)
         IN  BNAdd(low, IF rest = <<>> THEN <<>> ELSE <<0>> \o rest)

\* quotient and remainder of a by an int 0 < d < Base
RECURSIVE BNDivSmall(_, _)
BNDivSmall(a, d) ==
    IF a = <<>> THEN [q |-> <<>>, r |-> 0]
    ELSE LET hi == BNDivSmall(Tail(a), d)
             cur == hi.r * Base + Head(a)
         IN  [q |-> BNNorm(<<cur \div d>> \o hi.q), r |-> cur % d]

BNShl(a, k) ==
    IF a = <<>> THEN <<>>
    ELSE [i \in 1..(k \div LimbBits) |-> 0] \o BNMulC(a, 2 ^ (k % LimbBits), 0)

BNShr(a, k) ==
    IF Len(a) <= k \div LimbBits THEN <<>>
    ELSE BNDivSmall(SubSeq(a, k \div LimbBits + 1, Len(a)), 2 ^ (k % LimbBits)).q

RECURSIVE IntBitLen(_)
IntBitLen(n) == IF n = 0 THEN 0 ELSE 1 + IntBitLen(n \div 2)

BNBitLen(a) ==
    IF a = <<>> THEN 0 ELSE LimbBits * (Len(a) - 1) + IntBitLen(a[Len(a)])

\* bit i of a, bit 0 the lowest
BNBit(a, i) ==
    IF i \div LimbBits + 1 > Len(a) THEN 0
    ELSE (a[i \div LimbBits + 1] \div (2 ^ (i % LimbBits))) % 2

\* One step of binary long division by b: bit i of a comes down.
BNDivStep(a, b, acc, i) ==
    LET r2 == BNMulC(acc.r, 2, BNBit(a, i))
    IN  IF BNCmp(r2, b) >= 0
        THEN [q |-> BNMulC(acc.q, 2, 1), r |-> BNSub(r2, b)]
        ELSE [q |-> BNMulC(acc.q, 2, 0), r |-> r2]

\* The steps for bits hi down to lo, by halves.
RECURSIVE BNDivLoop(_, _, _, _, _)
BNDivLoop(a, b, acc, hi, lo) ==
    IF hi = lo THEN BNDivStep(a, b, acc, hi)
    ELSE LET mid == (hi + lo + 1) \div 2
             upper == BNDivLoop(a, b, acc, hi, mid)
         IN  IF upper.q = upper.q THEN BNDivLoop(a, b, upper, mid - 1, lo)
             ELSE upper

\* quotient and remainder of a by b > 0
BNDivMod(a, b) ==
    IF a = <<>> THEN [q |-> <<>>, r |-> <<>>]
    ELSE BNDivLoop(a, b, [q |-> <<>>, r |-> <<>>], BNBitLen(a) - 1, 0)

\* num / den rounded to the nearest integer, ties to the even one
BNRoundDiv(num, den) ==
    LET dm == BNDivMod(num, den)
        c == BNCmp(BNMulC(dm.r, 2, 0), den)
    IN  IF c > 0 \/ (c = 0 /\ BNBit(dm.q, 0) = 1)
        THEN BNAdd(dm.q, <<1>>) ELSE dm.q

\* Bits of a binary64 significand.
Mantissa == 53

\* A float is [neg, m, e] of value (-1)^neg * m * 2^e with m of 53 bits, or
\* m = <<>> for zero.
DZero == [neg |-> FALSE, m |-> <<>>, e |-> 0]

\* The float nearest to num * 2^e2 / den (round to nearest, ties to even):
\* what every float operation of the interpreter returns for its exact result.
DRound(num, den, e2) ==
    IF num = <<>> THEN DZero
    ELSE LET s0 == Mantissa - (BNBitLen(num) - BNBitLen(den))
             q0 == BNDivMod(IF s0 >= 0 THEN BNShl(num, s0) ELSE num,
                            IF s0 >= 0 THEN den ELSE BNShl(den, 0 - s0)).q
             s == IF BNBitLen(q0) > Mantissa THEN s0 - 1 ELSE s0
             m0 == BNRoundDiv(IF s >= 0 THEN BNShl(num, s) ELSE num,
                              IF s >= 0 THEN den ELSE BNShl(den, 0 - s))
         IN  IF BNBitLen(m0) > Mantissa
             THEN [neg |-> FALSE, m |-> BNShr(m0, 1), e |-> e2 - s + 1]
             ELSE [neg |-> FALSE, m |-> m0, e |-> e2 - s]

\* float("n/d") for a decimal literal
DFromDec(n, d) == DRound(BNFromInt(n), BNFromInt(d), 0)

\* a / b
DDiv(A, B) == [DRound(A.m, B.m, A.e - B.e) EXCEPT !.neg = (A.neg /= B.neg)]

\* k * b for an int k >= 0
DMulInt(k, B) == [DRound(BNMul(BNFromInt(k), B.m), <<1>>, B.e) EXCEPT !.neg = B.neg]

\* a - b for a, b >= 0
DSub(A, B) ==
    LET e0 == IF A.e < B.e THEN A.e ELSE B.e
        a == BNShl(A.m, A.e - e0)
        b == BNShl(B.m, B.e - e0)
        c == BNCmp(a, b)
    IN  IF c = 0 THEN DZero
        ELSE [DRound(IF c > 0 THEN BNSub(a, b) ELSE BNSub(b, a), <<1>>, e0)
                 EXCEPT !.neg = (c < 0)]

\* A DLess that never answers "less".
DNeverLess(A, B) == FALSE

\* a < b for a, b >= 0
DLess(A, B) == DSub(A, B).neg

\* a > 0
DPositive(A) == A.m /= <<>> /\ ~A.neg

\* int(a) for a >= 0
DTrunc(A) ==
    IF A.e >= 0 THEN BNToInt(BNShl(A.m, A.e)) ELSE BNToInt(BNShr(A.m, 0 - A.e))

\* round(a, p): the float nearest to the p-decimal number nearest to a
DRoundDigits(A, p) ==
    LET P == BNFromInt(10 ^ p)
        D == IF A.e >= 0 THEN BNMul(BNShl(A.m, A.e), P)
             ELSE BNRoundDiv(BNMul(A.m, P), BNShl(<<1>>, 0 - A.e))
    IN  [DRound(D, P, 0) EXCEPT !.neg = A.neg]

\* ----------------------------------------------------------- the chunker

Symbols == {"BTC", "ETH"}

\* Quantities are entered in thousandths of a coin.
Milli == 1000

\* SYMBOLS[symbol]['min_quantity'] in thousandths, and ['precision']
MinMilli(sym) == IF sym = "BTC" THEN 2 ELSE 8
QtyPrecision == 6
MinQuantity(sym) == DFromDec(MinMilli(sym), Milli)

\* ChunkManager.calculate_chunks(symbol, total_quantity): err for the
\* ValidationException, else the number of chunks (each min_quantity) and
\* the remainder information.
CalculateChunks(sym, total) ==
    LET min_quantity == MinQuantity(sym)
        total_quantity == DRoundDigits(total, QtyPrecision)
        num_full_chunks == DTrunc(DDiv(total_quantity, min_quantity))
        used_quantity == DMulInt(num_full_chunks, min_quantity)
        remainder == DRoundDigits(DSub(total_quantity, used_quantity), QtyPrecision)
    IN  IF DLess(total_quantity, min_quantity)
        THEN [err |-> TRUE]
        ELSE [err |-> FALSE,
              chunks |-> [i \in 1..num_full_chunks |-> MinMilli(sym)],
              has_remainder |-> DPositive(remainder),
              remainder |-> remainder,
              lower_amount |-> DRoundDigits(used_quantity, QtyPrecision),
              upper_amount |-> DRoundDigits(DMulInt(num_full_chunks + 1, min_quantity),
                                            QtyPrecision)]

\* Largest multiple of min_quantity entered.
MaxK == 43

\* Entered quantities are written with seven decimals, one more than the
\* symbols' precision: milli thousandths less sub ten-millionths.
Tenths == 10 ^ (QtyPrecision + 1)
SubSteps == {0, 4}
EnteredTenths(p) == p.milli * (Tenths \div Milli) - p.sub

\* The user entered a quantity for sym; probe.out is the result of
\* calculate_chunks once it was called.
\* The former compensation qty / (1 - fee), which buys more than the chunk.
ApplyBybitFeeCompensationOld(sym, quantity) == quantity + 1

\* SymbolConfig.apply_bybit_fee_compensation: "Return exact quantity - no
\* compensation".
ApplyBybitFeeCompensation(sym, quantity) == quantity

\* ChunkManager.create_chunk_pairs over the chunk list of calculate_chunks:
\* the Venue-A list is the compensated list, the Venue-B list a copy.
CreateChunkPairs(sym, base_chunks) ==
    [bybit_chunks |-> [i \in DOMAIN base_chunks |->
                          ApplyBybitFeeCompensation(sym, base_chunks[i])],
     coindcx_chunks |-> base_chunks]

NoPairs == [bybit_chunks |-> <<>>, coindcx_chunks |-> <<>>]

ChunkerInit ==
    /\ TradeInit
    /\ \E sym \in Symbols, k \in 0..MaxK, r \in {0, 1}, sub \in SubSteps :
         /\ k * MinMilli(sym) + r > 0
         /\ probe = [fn |-> "chunks", sym |-> sym, sub |-> sub,
                     milli |-> k * MinMilli(sym) + r,
                     called |-> FALSE, out |-> [err |-> FALSE],
                     pairs |-> NoPairs]

ChunkerFixed == <<venueVars, storeVars, orchVars, hist, fee>>

ChunkerCall ==
    /\ probe.fn = "chunks" /\ ~probe.called
    /\ probe' = [probe EXCEPT
          !.called = TRUE,
          !.out = CalculateChunks(probe.sym, DFromDec(EnteredTenths(probe), Tenths))]
    /\ UNCHANGED ChunkerFixed

\* execute_trade: create_chunk_pairs makes the two quantity lists, then the
\* chunk loop places the Venue-A order of chunk 1 and writes its row.  A ValidationException leaves
\* execute_trade through its except clause before the loop.
ChunkerPlace ==
    /\ probe.fn = "chunks" /\ probe.called
    /\ ~probe.out.err /\ probe.out.chunks /= <<>>
    /\ nextId = 1
    /\ Submitted("Bybit", "limit", 1, "open", "New")
    /\ rows' = Upsert(1, "Bybit", 1, "PLACED", "limit")
    /\ probe' = [probe EXCEPT
          !.pairs = CreateChunkPairs(probe.sym, probe.out.chunks)]
    /\ UNCHANGED <<lastEvent, rejections, orchVars, hist, fee>>

ChunkerNext == ChunkerCall \/ ChunkerPlace

ChunkerSpec == ChunkerInit /\ [][ChunkerNext]_vars

\* C24: for a total quantity Q of at least min_quantity calculate_chunks
\* returns floor(Q / min_quantity) chunks, each min_quantity, reports a
\* remainder exactly when Q is no multiple of min_quantity, and returns
\* lower_amount = floor * min_quantity and upper_amount = (floor + 1) *
\* min_quantity; for Q = k * min_quantity that is k chunks and no remainder.
\* (Stated for quantities entered at the symbol's precision.)
C24_ChunksExact ==
    (probe.fn = "chunks" /\ probe.called /\ probe.sub = 0
        /\ probe.milli >= MinMilli(probe.sym)) =>
        LET min == MinMilli(probe.sym)
            k == probe.milli \div min
            out == probe.out
        IN  /\ ~out.err
            /\ Len(out.chunks) = k
            /\ \A i \in 1..Len(out.chunks) : out.chunks[i] = min
            /\ out.has_remainder = (probe.milli % min /= 0)
            /\ out.lower_amount = DFromDec(k * min, Milli)
            /\ out.upper_amount = DFromDec((k + 1) * min, Milli)

\* The entered quantity rounded to the symbol's precision, in millionths
\* (entered values end in 0 or 6 ten-millionths, so no tie arises).
RoundedMicro(p) == (EnteredTenths(p) + 5) \div 10

NothingPlaced == (\A o \in OrderIds : ord[o] = NoOrder) /\ rows = {}

MaxPasses == 3
Ltps == {100, 101, 103}

\* calculate_maker_price for a buy: num_ticks = 1 below the quote
CalculateMakerPrice(ltp) == ltp - 1

LadderInit ==
    /\ TradeInit
    /\ \E l \in Ltps :
         probe = [fn |-> "ladder", pc |-> "submit", attempt |-> 1,
                  tick_increment |-> 1, cycle |-> 1, pass |-> 1,
                  ltp |-> l, price |-> CalculateMakerPrice(l),
                  sent |-> <<>>, clean |-> TRUE]

LadderFixed == <<venueVars, storeVars, orchVars, hist, fee>>

\* the order of this attempt goes out at the current price
LadderSent(p) == [p EXCEPT !.sent = Append(@, p.ltp - p.price)]

\* `continue` inside for attempt in range(1, 5)
LadderContinue(p) ==
    IF p.attempt = TicksPerCycle THEN [p EXCEPT !.pc = "cycle_end"]
    ELSE [p EXCEPT !.attempt = @ + 1]

\* the order is confirmed active: return response
LadderAccepted ==
    /\ probe.fn = "ladder" /\ probe.pc = "submit"
    /\ probe' = [LadderSent(probe) EXCEPT !.pc = "done"]
    /\ UNCHANGED LadderFixed

\* Step 4, rejection detected: a fresh quote, price = new_ltp -
\* tick_increment * tick_size, then tick_increment += 1; when
\* get_validated_prices raises the except clause goes on with the old price.
LadderRejected ==
    /\ probe.fn = "ladder" /\ probe.pc = "submit"
    /\ \/ \E l \in Ltps :
            probe' = LadderContinue(
                [LadderSent(probe) EXCEPT
                    !.ltp = l, !.price = l - probe.tick_increment,
                    !.tick_increment = @ + 1])
       \/ probe' = LadderContinue([LadderSent(probe) EXCEPT !.clean = FALSE])
    /\ UNCHANGED LadderFixed

\* no success in the response, an exception, or an unverifiable order
LadderError ==
    /\ probe.fn = "ladder" /\ probe.pc = "submit"
    /\ probe' = LadderContinue([probe EXCEPT !.clean = FALSE])
    /\ UNCHANGED LadderFixed

\* after the for loop: a fresh quote, 1 tick below, tick_increment = 1,
\* cycle += 1; when the quote fails the while loop goes round as it is.
LadderNewCycle ==
    /\ probe.fn = "ladder" /\ probe.pc = "cycle_end"
    /\ probe.pass < MaxPasses
    /\ \/ \E l \in Ltps :
            probe' = [probe EXCEPT
                !.pc = "submit", !.attempt = 1, !.pass = @ + 1,
                !.ltp = l, !.price = l - 1, !.tick_increment = 1,
                !.cycle = @ + 1, !.sent = <<>>, !.clean = TRUE]
       \/ probe' = [probe EXCEPT
                !.pc = "submit", !.attempt = 1, !.pass = @ + 1,
                !.sent = <<>>, !.clean = FALSE]
    /\ UNCHANGED LadderFixed

LadderNext == LadderAccepted \/ LadderRejected \/ LadderError \/ LadderNewCycle

LadderSpec == LadderInit /\ [][LadderNext]_vars

\* C27: within one placement cycle of the Venue-A order each post-only
\* rejection causes a retry priced exactly one tick further from the freshly
\* fetched LTP than the previous attempt, reaching 1, 2, 3 and 4 ticks away;
\* after the fourth consecutive rejection the LTP is refreshed and the cycle
\* restarts at 1 tick, in every cycle.
C27_TickLadder ==
    /\ (probe.fn = "ladder" /\ probe.clean) =>
          \A i \in 1..Len(probe.sent) : probe.sent[i] = i
    /\ (probe.fn = "ladder" /\ probe.clean /\ probe.pc = "submit"
           /\ probe.sent = <<>>) =>
          probe.ltp - probe.price = 1

\* Positions of the orchestrator inside _active_management_loop.
Phase1Positions ==
    {"AM_pollA", "AM_pollB", "AM_modA", "AM_modB", "AM_price", "AM_fixA",
     "AM_fixB", "AM_newA", "AM_newB", "AM_orderErr", "AM_spreadB",
     "AM_spreadRaise"}

C29_PriceErrorRetriedOrFatal ==
    /\ [][(pc = "AM_price" /\ pc' \notin {pc, "CX_check", "AM_fixA"}
              /\ trade' /= "interrupted") =>
             /\ pc' = "AM_pollA" /\ cycle' = cycle + 1
             /\ ord' = ord /\ ids' = ids /\ rows' = rows
             /\ raised' = "none" /\ outcome' = outcome /\ trade' = trade]_vars
    /\ [][(pc = "P_quote" /\ pc' \notin {pc, "PB_submit"}
              /\ raised' /= "Spread" /\ trade' /= "interrupted") =>
             /\ raised' = "Other" /\ trade' = "failed"
             /\ ord' = ord /\ nextId' = nextId /\ rows' = rows
             /\ \A o \in OrderIds : ord[o].seq /= chunk]_vars

\* a refetch failed in chunk 1 and the placement quote failed in chunk 2
C29_Witness ==
    /\ hist.quoteFailed
    /\ raised = "Other" /\ chunk = 2 /\ pc = "done"
    /\ \A o \in OrderIds : ord[o].seq /= 2
    /\ \E o \in OrderIds : ord[o].seq = 1

\* C30: a failed lifecycle-log write never blocks a trade: when an insert
\* into the lifecycle log fails, the handler goes on (nothing is raised to
\* the orchestrator) and the order-row status change of the same event is
\* still applied, so that the orchestrator observes it.
C30_LogFailureKeepsStatus ==
    probe.fn = "ingest" =>
        \A e \in probe.logFailed : e \in probe.effects

\* The statuses of the two rows of chunk c, when both rows exist.
PairStatuses(c) ==
    {<<a.status, b.status>> :
        <<a, b>> \in {p \in rows \X rows :
                         /\ p[1].seq = c /\ p[1].ex = "Bybit"
                         /\ p[2].seq = c /\ p[2].ex = "CoinDCX"}}

Terminal == {"FILLED", "CANCELLED", "REJECTED"}

\* C31: for every (chunk_group, sequence) whose two order rows exist, at
\* every instant the pair of statuses is one of: both legs OPEN; one leg
\* FILLED and the other PLACED, OPEN or FILLED; or both legs terminal
\* (FILLED, CANCELLED or REJECTED).  (A leg counts as open here while its
\* row is PLACED or OPEN: a Venue-B row is never set to OPEN.)
C31_PairStatusInvariant ==
    \A c \in Chunks : \A p \in PairStatuses(c) :
        \/ p[1] \in {"PLACED", "OPEN"} /\ p[2] \in {"PLACED", "OPEN"}
        \/ p[1] = "FILLED" /\ p[2] \in {"PLACED", "OPEN", "FILLED"}
        \/ p[2] = "FILLED" /\ p[1] \in {"PLACED", "OPEN", "FILLED"}
        \/ p[1] \in Terminal /\ p[2] \in Terminal

\* C32: in every Phase-1 modification cycle in which neither leg is FILLED,
\* CANCELLED or REJECTED and the refetched spread is within the maximum, both
\* legs are re-priced to the new maker prices, whether a leg's row status is
\* PLACED or OPEN.
C32_BothLegsRepriced ==
    [][(pc = "AM_fixB" /\ pc' = "AM_pollA"
           /\ stat.A \in {"PLACED", "OPEN"} /\ stat.B \in {"PLACED", "OPEN"}) =>
          {ids.A, ids.B} \subseteq hist'.repriced]_vars

\* C33: when a Phase-1 modification cycle finds a leg REJECTED it places a
\* new limit order for that leg, and from then on the orders row of that
\* (chunk_group, sequence, venue) carries the new order id with a status
\* that is not terminal unless the new order's own events made it so: the
\* ids the loop tracks always resolve to the rows of the chunk.
C33_ReplacementHasRow ==
    pc \in Phase1Positions =>
        /\ \E r \in rows : r.seq = chunk /\ r.ex = "Bybit" /\ r.oid = ids.A
        /\ \E r \in rows : r.seq = chunk /\ r.ex = "CoinDCX" /\ r.oid = ids.B

\* ---------------------------------------------------------------------
\* Database.upsert_order on one (chunk_group_id, chunk_sequence, exchange)
\* key.  A nullable column or argument is the empty set (NULL / None) or a
\* one-element set.  probe holds the stored row of the key, the row before
\* the last call and the arguments of the last call.
MaxUpserts == 2

NoRow == [absent |-> TRUE]

Payloads ==
    [ids : {[order_id |-> 1, price |-> 10, quantity |-> 4],
            [order_id |-> 2, price |-> 11, quantity |-> 5]},
     kind : {[status |-> "PLACED", order_type |-> "limit"],
             [status |-> "FILLED", order_type |-> "market"]},
     is_partial_completion : BOOLEAN,
     partial_details : {{}, {[partial_order_id |-> 1, partial_filled_qty |-> 2,
                              partial_fee |-> 1]}},
     cumexecqty : {{}, {4}},
     cumexecfee : {{}, {1}},
     net_received : {{}}]

Coalesce(a, b) == IF a /= {} THEN a ELSE b

\* `if is_partial_completion and partial_details:` else every partial_* None
PartialArgs(p) ==
    IF p.is_partial_completion /\ p.partial_details /= {}
    THEN p.partial_details ELSE {}

\* net_received = cumexecqty - cumexecfee when it is not given and both are
NetReceived(p) ==
    IF p.net_received = {} /\ p.cumexecqty /= {} /\ p.cumexecfee /= {}
    THEN {(CHOOSE q \in p.cumexecqty : TRUE) - (CHOOSE f \in p.cumexecfee : TRUE)}
    ELSE p.net_received

\* An upsert whose ON CONFLICT clause keeps stored partial_* columns that
\* the incoming record leaves NULL.
UpsertOrderKeep(row, p) ==
    [absent |-> FALSE,
     order_id |-> p.ids.order_id, price |-> p.ids.price,
     quantity |-> p.ids.quantity,
     status |-> p.kind.status, order_type |-> p.kind.order_type,
     is_partial_fill_completion |-> p.is_partial_completion,
     partial |-> IF row.absent THEN PartialArgs(p)
                 ELSE Coalesce(PartialArgs(p), row.partial),
     cumexecqty |-> IF row.absent THEN p.cumexecqty
                    ELSE Coalesce(p.cumexecqty, row.cumexecqty),
     cumexecfee |-> IF row.absent THEN p.cumexecfee
                    ELSE Coalesce(p.cumexecfee, row.cumexecfee),
     net_received |-> IF row.absent THEN NetReceived(p)
                      ELSE Coalesce(NetReceived(p), row.net_received)]

\* INSERT ... ON CONFLICT (chunk_group_id, chunk_sequence, exchange) DO
\* UPDATE SET: EXCLUDED for order_id, price, quantity, status, order_type and
\* the partial_* columns, COALESCE(EXCLUDED, orders) for cumexecqty,
\* cumexecfee and net_received.
UpsertOrder(row, p) ==
    [absent |-> FALSE,
     order_id |-> p.ids.order_id, price |-> p.ids.price,
     quantity |-> p.ids.quantity,
     status |-> p.kind.status, order_type |-> p.kind.order_type,
     is_partial_fill_completion |-> p.is_partial_completion,
     partial |-> PartialArgs(p),
     cumexecqty |-> IF row.absent THEN p.cumexecqty
                    ELSE Coalesce(p.cumexecqty, row.cumexecqty),
     cumexecfee |-> IF row.absent THEN p.cumexecfee
                    ELSE Coalesce(p.cumexecfee, row.cumexecfee),
     net_received |-> IF row.absent THEN NetReceived(p)
                      ELSE Coalesce(NetReceived(p), row.net_received)]

UpsertInit ==
    /\ TradeInit
    /\ probe = [fn |-> "upsert", calls |-> 0, row |-> NoRow, before |-> NoRow,
                args |-> {}]

UpsertFixed == <<venueVars, storeVars, orchVars, hist, fee>>

UpsertCall ==
    /\ probe.fn = "upsert" /\ probe.calls < MaxUpserts
    /\ \E p \in Payloads :
         probe' = [probe EXCEPT !.calls = @ + 1, !.before = probe.row,
                                !.args = {p}, !.row = UpsertOrder(probe.row, p)]
    /\ UNCHANGED UpsertFixed

UpsertNext == UpsertCall

UpsertSpec == UpsertInit /\ [][UpsertNext]_vars

C36_LogAuthoritativeForFilled ==
    (probe.fn = "status" /\ probe.out \notin {"pending", "RAISE"}) =>
        /\ probe.ev = "FILLED" => probe.out = "FILLED"
        /\ (probe.os \in {"CANCELLED", "REJECTED"} /\ probe.out = probe.os) =>
              probe.ev = probe.os

\* ---------------------------------------------------------------------------
\* C37: throughout Phase 2 the resolver's current order id is the most recently
\* accepted limit order of the unfilled leg, so when the resolver returns or
\* goes on to submit the market fallback no limit order of that leg and chunk
\* other than the one it tracks is still live at the venue.
UntrackedLive(o) ==
    /\ ord[o].ex = res.ex
    /\ ord[o].seq = chunk
    /\ ord[o].typ = "limit"
    /\ Live(o)
    /\ o /= res.oid

ResolverPositions == {"R_check", "R_newOrder", "R_modify", "R_cancelled", "R_safety"}

C37_ResolverTracksReplacement ==
    [][(pc \in ResolverPositions /\ pc' \in {"CH_done", "M_submit"})
         => \A o \in 1..MaxOrders : ~UntrackedLive(o)']_vars

\* ---------------------------------------------------------------------------
\* C38: once the row of an order id reads FILLED it stays FILLED: no step of
\* the ingestion thread (a later New, Cancelled or Rejected event) and no
\* write of the orchestrator (cancel bookkeeping) for that order id changes
\* the status to another value.
C38_FilledIsFinal ==
    [][\A r \in rows : r.status = "FILLED" =>
          \A q \in rows' : q.oid = r.oid => q.status = "FILLED"]_vars

\* ---------------------------------------------------------------------------
\* C39: a row reads FILLED only when the venue has completely filled the
\* order; a stream event that reports a partial execution never makes the row
\* FILLED.
C39_FilledMeansComplete ==
    \A r \in rows : r.status = "FILLED" => ord[r.oid].st = "filled"

\* ---------------------------------------------------------------------------
\* The trade under the scheduling of its threads: the ingestion thread takes
\* every event that waits on a stream, the monitor's poll keeps running and
\* its requests to the venue do not fail for ever, and the orchestrator takes
\* its next step whenever it has one.  The venues and the user are under no
\* obligation.
Orchestrator ==
    \/ PlaceQuote \/ BybitSubmit \/ BybitPoll \/ BybitApiCheck \/ PlaceAfterA
    \/ CoinDCXSubmit \/ PlaceAfterB \/ PlaceRecord
    \/ AMPoll \/ AMModCheck \/ AMOrderError \/ AMPrice \/ AMSpread \/ AMFix
    \/ CancelCheck \/ CancelRequest \/ CancelFinish
    \/ ResolveCheck \/ ResolveNewOrder \/ ResolveModify \/ ResolveFallback
    \/ MarketSubmit \/ MarketRecord \/ MarketWait
    \/ ChunkDone

FairSpec ==
    /\ Init /\ [][Next]_vars
    /\ WF_vars(Ingest) /\ WF_vars(ReconcileFetch) /\ WF_vars(ReconcileCheck)
    /\ SF_vars(ReconcileCheck /\ rows' /= rows)
    /\ WF_vars(Orchestrator)

\* The store reports status s for order id o: the row or the lifecycle log
\* carries it, or a status that can only follow it.
Reported(o, s) ==
    \/ RowStatus(o) = s \/ lastEvent[o] = s
    \/ s = "OPEN" /\ RowStatus(o) \in {"FILLED", "CANCELLED", "REJECTED"}

\* C40: no status is lost to the placement race: when the ingestion thread
\* has processed a New or Filled event of a limit order before its row was
\* committed, then from the moment the row of that order id is committed the
\* store eventually reports the event's status for the id.
C40_EarlyEventNotLost ==
    \A o \in OrderIds : \A s \in {"OPEN", "FILLED"} :
        (([oid |-> o, s |-> s] \in hist.early /\ RowOf(o) /= {})
            ~> Reported(o, s))

====
